---------------------------- MODULE Spec2Model ----------------------------
(***************************************************************************)
(* Admin dashboard data layer of bzionu: the Redis-backed query cache      *)
(* (lib/cache: getRedis, cache, CACHE_KEYS, getCachedQuery,                *)
(* invalidateDashboardCache), the optimized dashboard fetchers             *)
(* (admin/_actions/activities-optimized.ts) and the dashboard-data route.  *)
(*                                                                         *)
(* Strings are sequences of one-character strings, so that template        *)
(* literals, parseInt, string comparison and Redis' glob matching are      *)
(* computed character by character as the code computes them.              *)
(***************************************************************************)
EXTENDS Integers, Sequences, FiniteSets, TLC

VARIABLES
    users,        \* "User" table: set of rows
    quotes,       \* "Quote" table
    forms,        \* "FormSubmission" table
    newsletter,   \* "NewsletterSubscriber" table
    checkouts,    \* number of AnalyticsEvent rows with eventType checkout_completed
    env,          \* process.env / Redis constructor behaviour seen by getRedis
    redis,        \* module variable `redis` of lib/cache: Undefined, Null or Client
    storeUp,      \* whether the Upstash REST endpoint answers (else every call throws)
    store,        \* contents of the Redis store: key -> [value, ttlLeft]
    pop,          \* the key a getCachedQuery call populated last, and how long ago
    last,         \* the last operation: what was called and how it went
    lastValue,    \* <<v>> for the value v the last operation resolved to, else <<>>
    now,          \* the clock read by the route handler, in milliseconds
    clientETag,   \* the ETag of the last response the browser received, <<>> if none
    reader,       \* a getFormSubmissionsOptimized call in progress, step by step
    writer,       \* an updateFormSubmissionStatus call in progress, step by step
    SocketServer, \* module variable of lib/websocket: socket.io's Server, or Null
    server,       \* the server initializeWebSocketServer created, or Null
    ioInstance,   \* module variable `ioInstance` of lib/websocket
    sockets,      \* the sockets opened so far; a socket's id is its index
    connectedAdmins, \* keys of the Map `connectedAdmins` (each maps to its socket)
    io,           \* module variable of hooks/useWebSocket: socket.io-client, or Null
    session,      \* useSession().data: <<>> or <<user>>
    hook,         \* socketRef, isConnected and isConnecting of one useWebSocket hook
    emailRateLimits, \* the Map `emailRateLimits` of lib/email-validation
    clock,        \* Date.now() as the mail and registration handlers read it
    calls,        \* the checkEmailRateLimit calls made so far: whose, when, the answer
    outbox,       \* the recipients sendTestEmail was invoked with
    activityLog,  \* the entries logActivity stored
    accounts,     \* the rows of prisma.user the registration handler sees
    requests,     \* the registration requests in progress, step by step
    promise       \* one withTimeout call: the wrapped promise, the timer, the outcome

vars == <<users, quotes, forms, newsletter, checkouts, env, redis, storeUp,
          store, pop, last, lastValue, now, clientETag, reader, writer,
          SocketServer, server, ioInstance, sockets, connectedAdmins, io, session, hook,
          emailRateLimits, clock, calls, outbox, activityLog, accounts, requests,
          promise>>

dbVars == <<users, quotes, forms, newsletter, checkouts>>

routeVars == <<now, clientETag>>

raceVars == <<reader, writer>>

cacheVars == <<env, redis, storeUp, store, pop>>

serverVars == <<SocketServer, server, ioInstance, sockets, connectedAdmins>>

hookVars == <<io, session, hook>>

pushVars == <<serverVars, hookVars>>

rateVars == <<emailRateLimits, clock, calls>>

sendVars == <<outbox, activityLog>>

registerVars == <<accounts, requests>>

mailVars == <<rateVars, sendVars, registerVars, promise>>

(***************************************************************************)
(* Bounds of the model.                                                    *)
(***************************************************************************)
MaxRows == 2        \* rows per table in the drawn tables
MaxTs == 2          \* timestamps are drawn from 1..MaxTs
MaxOther == 1       \* rows of the count-only sources (forms, newsletter, checkouts)
TickStep == 5       \* seconds by which the clock advances in one step
MaxKeys == 2        \* entries the store holds at once
MaxClock == 1       \* milliseconds the route's clock runs for

(***************************************************************************)
(* JavaScript values.                                                      *)
(***************************************************************************)
\* NaN, as parseInt returns it for a string with no leading digits: a number that
\* is no integer. It is encoded as an integer outside every range the model uses.
NaN == -1000000
Null == "null"
Undefined == "undefined"
Client == "client"

\* null in a numeric position of a parsed JSON document
JsonNull == -1000001

IsInt(x) == x # NaN

\* ToNumber on a number or null: null is 0
ToNumber(x) == IF x = JsonNull THEN 0 ELSE x

\* a + b on numbers
JsAdd(a, b) == IF IsInt(a) /\ IsInt(b) THEN a + b ELSE NaN
\* a * b on numbers
JsMul(a, b) == IF IsInt(a) /\ IsInt(b) THEN a * b ELSE NaN
\* a < b : false as soon as one side is NaN
JsLt(a, b) == IsInt(a) /\ IsInt(b) /\ a < b
\* a <= b
JsLe(a, b) == IsInt(a) /\ IsInt(b) /\ a <= b
\* Math.max(a, b) : NaN if either is NaN
MathMax(a, b) == IF IsInt(a) /\ IsInt(b) THEN (IF a >= b THEN a ELSE b) ELSE NaN
\* Math.min(a, b)
MathMin(a, b) == IF IsInt(a) /\ IsInt(b) THEN (IF a <= b THEN a ELSE b) ELSE NaN

Min(a, b) == IF a <= b THEN a ELSE b

(***************************************************************************)
(* Strings as character sequences.                                         *)
(***************************************************************************)
\* the characters used, in UTF-16 code unit order
Alphabet ==
    <<"*", "-", "0", "1", "2", "3", "4", "5", "6", "7", "8", "9", ":", "?",
      "N", "_", "a", "b", "c", "d", "e", "f", "g", "h", "i", "j", "k", "l",
      "m", "n", "o", "p", "q", "r", "s", "t", "u", "v", "w", "x", "y", "z">>

Code(c) == CHOOSE i \in 1..Len(Alphabet) : Alphabet[i] = c

DigitChars == <<"0", "1", "2", "3", "4", "5", "6", "7", "8", "9">>

IsDigit(c) == \E i \in 1..10 : DigitChars[i] = c

DigitVal(c) == (CHOOSE i \in 1..10 : DigitChars[i] = c) - 1

RECURSIVE NatStr(_)
\* decimal digits of a natural number
NatStr(n) == IF n < 10 THEN <<DigitChars[n + 1]>>
             ELSE NatStr(n \div 10) \o <<DigitChars[(n % 10) + 1]>>

\* `${n}` : Number.prototype.toString
NumStr(n) == IF n = NaN THEN <<"N", "a", "N">>
             ELSE IF n < 0 THEN <<"-">> \o NatStr(-n)
             ELSE NatStr(n)

RECURSIVE StrLess(_, _)
\* a < b on strings: comparison by code units
StrLess(a, b) ==
    IF b = <<>> THEN FALSE
    ELSE IF a = <<>> THEN TRUE
    ELSE IF Head(a) = Head(b) THEN StrLess(Tail(a), Tail(b))
    ELSE Code(Head(a)) < Code(Head(b))

\* s.startsWith(p)
StartsWith(s, p) == Len(p) <= Len(s) /\ SubSeq(s, 1, Len(p)) = p

RECURSIVE GlobMatch(_, _)
\* Redis KEYS pattern matching (glob style): * any run, ? any one character,
\* every other character stands for itself
GlobMatch(p, s) ==
    IF p = <<>> THEN s = <<>>
    ELSE IF Head(p) = "*"
         THEN GlobMatch(Tail(p), s) \/ (s # <<>> /\ GlobMatch(p, Tail(s)))
    ELSE IF s = <<>> THEN FALSE
    ELSE IF Head(p) = "?" THEN GlobMatch(Tail(p), Tail(s))
    ELSE Head(p) = Head(s) /\ GlobMatch(Tail(p), Tail(s))

(***************************************************************************)
(* CACHE_KEYS.dashboard and CACHE_TTL.dashboard                            *)
(***************************************************************************)
S_dashboard == <<"d", "a", "s", "h", "b", "o", "a", "r", "d", ":">>
S_activities == <<"a", "c", "t", "i", "v", "i", "t", "i", "e", "s">>
S_stats == <<"s", "t", "a", "t", "s">>
S_quotes == <<"q", "u", "o", "t", "e", "s">>
S_users == <<"u", "s", "e", "r", "s">>
S_newsletter == <<"n", "e", "w", "s", "l", "e", "t", "t", "e", "r">>
S_forms == <<"f", "o", "r", "m", "s">>

EntityStr(e) ==
    CASE e = "activities" -> S_activities
      [] e = "stats" -> S_stats
      [] e = "quotes" -> S_quotes
      [] e = "users" -> S_users
      [] e = "newsletter" -> S_newsletter
      [] e = "forms" -> S_forms

\* `dashboard:<entity>:${offset}:${limit}`
PageKey(e, offset, limit) ==
    S_dashboard \o EntityStr(e) \o <<":">> \o NumStr(offset) \o <<":">> \o NumStr(limit)

CACHE_KEYS_activities(offset, limit) == PageKey("activities", offset, limit)
CACHE_KEYS_stats == S_dashboard \o S_stats
CACHE_KEYS_quotes(offset, limit) == PageKey("quotes", offset, limit)
CACHE_KEYS_users(offset, limit) == PageKey("users", offset, limit)
CACHE_KEYS_newsletter(offset, limit) == PageKey("newsletter", offset, limit)
CACHE_KEYS_forms(offset, limit) == PageKey("forms", offset, limit)

CACHE_TTL_realtime == 10
CACHE_TTL_stats == 30

(***************************************************************************)
(* The database (Prisma).  A row is [id, at, status]; `at` is createdAt,   *)
(* submittedAt or subscribedAt.  User ids are numbers, the other ids are   *)
(* strings.                                                                *)
(***************************************************************************)
MaxAt(S) == CHOOSE m \in {r.at : r \in S} : \A r \in S : r.at <= m

RECURSIVE OrderByDesc(_)
\* every order in which the database may return S for ORDER BY <at> DESC:
\* rows of equal `at` come in any order
OrderByDesc(S) ==
    IF S = {} THEN {<<>>}
    ELSE UNION {{<<r>> \o t : t \in OrderByDesc(S \ {r})} :
                r \in {x \in S : x.at = MaxAt(S)}}

\* rows [skip, skip + take) of an ordered result; an argument that is not an
\* integer, when the query engine lets it through, is no restriction
SkipTake(ord, skip, take) ==
    LET from == IF IsInt(skip) THEN skip ELSE 0
        upto == IF IsInt(take) THEN Min(Len(ord), from + take) ELSE Len(ord)
    IN  SubSeq(ord, from + 1, upto)

\* how the queries of one call go: `fail` are the queries that reject (database
\* error, or withTimeout's timer winning the race), "rows" the first page query,
\* "business" the second, "count" a count query; nanReject is whether the query
\* engine rejects a take/skip/LIMIT argument that is NaN
AllFine == [fail |-> {}, nanReject |-> TRUE]

\* whether some query of a call with these arguments rejects
Rejects(q, names, offset, limit) ==
    \/ q.fail \cap names # {}
    \/ (q.nanReject /\ (~IsInt(offset) \/ ~IsInt(limit)))

(***************************************************************************)
(* PaginatedResult and the fetchers of activities-optimized.ts             *)
(***************************************************************************)
PaginatedResult(data, total, offset, limit, hasMore) ==
    [data |-> data, total |-> total, offset |-> offset, limit |-> limit,
     hasMore |-> hasMore]

\* a catch branch that marks the failure in the result: total -1, not the empty page
CatchResult_marked(offset, limit) == PaginatedResult(<<>>, 0 - 1, offset, limit, FALSE)

\* the catch branch of every paginated fetcher
CatchResult(offset, limit) == PaginatedResult(<<>>, 0, offset, limit, FALSE)

\* user => ActivityEvent
UserEvent(user) ==
    [id |-> <<"u", "s", "e", "r", "_">> \o NumStr(user.id),
     type |-> "user_registration",
     timestamp |-> user.at,
     status |-> IF user.status = "verified" THEN "verified" ELSE "pending_verification"]

\* quote => ActivityEvent
QuoteEvent(quote) ==
    [id |-> quote.id, type |-> "quote_request", timestamp |-> quote.at,
     status |-> quote.status]

\* Date.prototype.getTime
getTime(d) == d[2]

MapSeq(Op(_), s) == [i \in DOMAIN s |-> Op(s[i])]

\* the place at which a stable descending sort puts x into an already sorted s
InsertDesc(x, s) ==
    LET k == Cardinality({i \in DOMAIN s : getTime(s[i].timestamp) >= getTime(x.timestamp)})
    IN  SubSeq(s, 1, k) \o <<x>> \o SubSeq(s, k + 1, Len(s))

RECURSIVE SortByTimestampDesc(_)
\* activities.sort((a, b) => b.timestamp.getTime() - a.timestamp.getTime()):
\* Array.prototype.sort is stable, equal timestamps keep their order
SortByTimestampDesc(s) ==
    IF s = <<>> THEN <<>>
    ELSE InsertDesc(s[Len(s)], SortByTimestampDesc(SubSeq(s, 1, Len(s) - 1)))

\* arr.slice(0, n): a NaN end is 0
Slice0(s, n) == IF IsInt(n) THEN SubSeq(s, 1, Min(Len(s), n)) ELSE <<>>

TotalActivities ==
    Cardinality(users) + Cardinality(quotes) + Cardinality(forms)
        + Cardinality(newsletter) + checkouts

\* the fetcher passed to getCachedQuery by getRecentActivitiesOptimized; uOrd and
\* qOrd are the orders in which the two ORDER BY queries return their rows
ActivitiesFetcher(uOrd, qOrd, offset, limit, q) ==
    IF Rejects(q, {"rows", "business", "count"}, offset, limit)
    THEN CatchResult(offset, limit)
    ELSE LET userActivities == SkipTake(uOrd, offset, limit)
             businessActivities == SkipTake(qOrd, 0, limit)
             activities == MapSeq(UserEvent, userActivities)
                               \o MapSeq(QuoteEvent, businessActivities)
             sorted == Slice0(SortByTimestampDesc(activities), limit)
         IN  PaginatedResult(sorted, TotalActivities, offset, limit,
                             JsLt(JsAdd(offset, limit), TotalActivities))

\* the fetcher of the four per-entity functions: a page query and a count query
\* over the same `where`, here the rows `matching`
EntityFetcher(ord, matching, offset, limit, q) ==
    IF Rejects(q, {"rows", "count"}, offset, limit)
    THEN CatchResult(offset, limit)
    ELSE PaginatedResult(SkipTake(ord, offset, limit), Cardinality(matching),
                         offset, limit,
                         JsLt(JsAdd(offset, limit), Cardinality(matching)))

\* where: status ? { status } : undefined
QuotesWhere(status) ==
    IF status = Undefined THEN quotes ELSE {r \in quotes : r.status = status}

\* where: { role: 'customer' }
CustomersWhere == {r \in users : r.role = "customer"}

ZeroStats ==
    [totalUsers |-> 0, newUsersThisWeek |-> 0, totalQuotes |-> 0,
     pendingQuotes |-> 0, totalNewsletterSubscribers |-> 0,
     totalFormSubmissions |-> 0, totalCheckouts |-> 0]

\* the fetcher of getActivityStatsOptimized: seven counts under one withTimeout.
\* Every timestamp of the model lies within the last seven days.
StatsFetcher(q) ==
    IF q.fail # {} THEN ZeroStats
    ELSE [totalUsers |-> Cardinality(users),
          newUsersThisWeek |-> Cardinality(users),
          totalQuotes |-> Cardinality(quotes),
          pendingQuotes |->
              Cardinality({r \in quotes : r.status \in {"draft", "pending"}}),
          totalNewsletterSubscribers |->
              Cardinality({r \in newsletter : r.status = "active"}),
          totalFormSubmissions |-> Cardinality(forms),
          totalCheckouts |-> checkouts]

(***************************************************************************)
(* JSON.  cache.set stores JSON.stringify(value) and the Upstash client    *)
(* parses what it reads: a Date comes back as its ISO string and NaN as    *)
(* null.  A row handed out by a query carries its time as <<"Date", t>>,   *)
(* a parsed one as <<"string", t>>.                                        *)
(***************************************************************************)
Date(t) == <<"Date", t>>

\* the row as the query returns it to the fetcher
Selected(row) == [row EXCEPT !.at = Date(row.at)]

JsonTime(d) == <<"string", d[2]>>

JsonNum(n) == IF n = NaN THEN JsonNull ELSE n

JsonRow(r) ==
    IF "timestamp" \in DOMAIN r
    THEN [r EXCEPT !.timestamp = JsonTime(r.timestamp)]
    ELSE [r EXCEPT !.at = JsonTime(r.at)]

\* JSON.parse(JSON.stringify(value)) of a fetcher's value
JsonRoundTrip(v) ==
    IF "data" \in DOMAIN v
    THEN [v EXCEPT !.data = MapSeq(JsonRow, v.data),
                   !.offset = JsonNum(v.offset),
                   !.limit = JsonNum(v.limit)]
    ELSE v

(***************************************************************************)
(* lib/cache: getRedis, cache.get / set / del / invalidatePattern,         *)
(* getCachedQuery, invalidateDashboardCache                                *)
(***************************************************************************)
Envs == {"missing", "badurl", "ctorThrows", "ok"}

\* getRedis(): the client, or Null; the module variable `redis` is set to the result.
\* Missing or blank credentials, a URL that is not https and a constructor that
\* throws all give Null.
getRedis(r, e) ==
    IF r # Undefined THEN r
    ELSE IF e = "ok" THEN Client
    ELSE Null

\* The Upstash client.  Every call throws while the endpoint is unreachable.
\* redisClient.get: <<>> is null, <<v>> the parsed value
redis_get(up, st, key) ==
    IF ~up THEN [threw |-> TRUE, val |-> <<>>]
    ELSE [threw |-> FALSE, val |-> IF key \in DOMAIN st THEN <<st[key].value>> ELSE <<>>]

\* redisClient.setex(key, ttl, json) and, with expires = FALSE, redisClient.set
redis_setex(up, st, key, ttl, expires, json) ==
    IF ~up THEN [threw |-> TRUE, store |-> st]
    ELSE [threw |-> FALSE,
          store |-> [k \in DOMAIN st \cup {key} |->
                        IF k = key
                        THEN [value |-> json, expires |-> expires, ttlLeft |-> ttl]
                        ELSE st[k]]]

\* redisClient.keys(pattern)
redis_keys(up, st, pattern) ==
    IF ~up THEN [threw |-> TRUE, keys |-> {}]
    ELSE [threw |-> FALSE, keys |-> {k \in DOMAIN st : GlobMatch(pattern, k)}]

\* redisClient.del(...keys)
redis_del(up, st, keys) ==
    IF ~up THEN [threw |-> TRUE, store |-> st]
    ELSE [threw |-> FALSE, store |-> [k \in DOMAIN st \ keys |-> st[k]]]

\* cache.get with its try/catch removed: a throwing client call rejects
cache_get_uncaught(client, up, st, key) ==
    IF client = Null THEN [threw |-> FALSE, val |-> <<>>]
    ELSE redis_get(up, st, key)

\* cache.get: the client's answer; null without a client or when the call throws
cache_get(client, up, st, key) ==
    IF client = Null THEN [threw |-> FALSE, val |-> <<>>]
    ELSE LET r == redis_get(up, st, key)
         IN  IF r.threw THEN [threw |-> FALSE, val |-> <<>>] ELSE r

\* cache.set that always uses set(key, json): the entry never expires
cache_set_forever(client, up, st, key, value, ttl) ==
    IF client = Null THEN [threw |-> FALSE, store |-> st]
    ELSE LET r == redis_setex(up, st, key, ttl, FALSE, JsonRoundTrip(value))
         IN  IF r.threw THEN [threw |-> FALSE, store |-> st] ELSE r

\* cache.set: setex(key, ttl, json) when ttl is truthy, set(key, json) otherwise
cache_set(client, up, st, key, value, ttl) ==
    IF client = Null THEN [threw |-> FALSE, store |-> st]
    ELSE LET r == redis_setex(up, st, key, ttl, ttl # 0, JsonRoundTrip(value))
         IN  IF r.threw THEN [threw |-> FALSE, store |-> st] ELSE r

\* cache.del
cache_del(client, up, st, key) ==
    IF client = Null THEN [threw |-> FALSE, store |-> st]
    ELSE LET r == redis_del(up, st, {key})
         IN  IF r.threw THEN [threw |-> FALSE, store |-> st] ELSE r

\* cache.invalidatePattern that deletes every key, whatever the pattern
cache_invalidatePattern_flush(client, up, st, pattern) ==
    IF client = Null THEN [threw |-> FALSE, store |-> st]
    ELSE LET r == redis_del(up, st, DOMAIN st)
         IN  IF r.threw THEN [threw |-> FALSE, store |-> st] ELSE r

\* cache.invalidatePattern: keys(pattern), then del(...keys) if there are any
cache_invalidatePattern(client, up, st, pattern) ==
    IF client = Null THEN [threw |-> FALSE, store |-> st]
    ELSE LET ks == redis_keys(up, st, pattern)
             r == redis_del(up, st, ks.keys)
         IN  IF ks.threw THEN [threw |-> FALSE, store |-> st]
             ELSE IF ks.keys = {} THEN [threw |-> FALSE, store |-> st]
             ELSE IF r.threw THEN [threw |-> FALSE, store |-> st]
             ELSE r

\* if (cached)
Truthy(cached) == cached # <<>>

\* getCachedQuery(key, fetcher, ttl); `fetched` is what fetcher() resolves to when
\* it is invoked.  A call of cache.get or cache.set that throws rejects the whole.
getCachedQuery(key, fetched, ttl, client, up, st) ==
    LET got == cache_get(client, up, st, key)
        put == cache_set(client, up, st, key, fetched, ttl)
    IN  IF got.threw
        THEN [threw |-> TRUE, value |-> <<>>, store |-> st, hit |-> FALSE, calls |-> 0]
        ELSE IF Truthy(got.val)
        THEN [threw |-> FALSE, value |-> got.val, store |-> st, hit |-> TRUE, calls |-> 0]
        ELSE IF put.threw
        THEN [threw |-> TRUE, value |-> <<>>, store |-> st, hit |-> FALSE, calls |-> 1]
        ELSE [threw |-> FALSE, value |-> <<fetched>>, store |-> put.store, hit |-> FALSE,
              calls |-> 1]

\* invalidateDashboardCache(pattern?): 'dashboard:*' when no pattern is given
invalidateDashboardCache(client, up, st, pattern) ==
    IF pattern = <<>>
    THEN cache_invalidatePattern(client, up, st, S_dashboard \o <<"*">>)
    ELSE cache_invalidatePattern(client, up, st, pattern)

(***************************************************************************)
(* Time.  An entry written by setex lives ttl seconds; the model keeps the *)
(* seconds left and the clock advances TickStep seconds at a time.         *)
(***************************************************************************)
Elapse(st, secs) ==
    LET live == {k \in DOMAIN st : ~st[k].expires \/ st[k].ttlLeft > secs}
    IN  [k \in live |->
            IF st[k].expires THEN [st[k] EXCEPT !.ttlLeft = @ - secs] ELSE st[k]]

\* no key is being followed
NoPop == [key |-> <<>>, t |-> 0, ttl |-> 0]

\* the seconds since the followed key was populated, counted up to its ttl
AgeBy(p, secs) == [p EXCEPT !.t = Min(p.ttl, @ + secs)]

(***************************************************************************)
(* Operations.  Each call of a fetcher is one step: cache look-up, the     *)
(* queries, the cache write.                                               *)
(***************************************************************************)
NoValue == <<>>

NoLast == [op |-> "none", key |-> <<>>, offset |-> 0, limit |-> 0, status |-> Undefined,
           fate |-> [fail |-> {}, nanReject |-> TRUE],
           hit |-> FALSE, fetched |-> <<>>, rejected |-> FALSE, dbRejected |-> FALSE,
           healthy |-> FALSE, fresh |-> "none"]

Healthy == getRedis(redis, env) = Client /\ storeUp

\* the followed key after a getCachedQuery call that went as r
PopAfter(p, r, key, ttl) ==
    IF ~Healthy THEN (IF p.key = key THEN NoPop ELSE p)
    ELSE IF r.calls = 0 THEN p
    ELSE [key |-> key, t |-> 0, ttl |-> ttl]

\* one call of getCachedQuery(key, () => fetched, ttl) on behalf of `op`.
\* last.fetched is what the fetcher produced, <<>> when it was not invoked;
\* lastValue is <<v>> for the value v the call resolved to, <<>> when it rejected.
Cached(op, key, fetched, ttl, offset, limit, status, q) ==
    LET client == getRedis(redis, env)
        r == getCachedQuery(key, fetched, ttl, client, storeUp, store)
    IN  /\ Cardinality(DOMAIN r.store) <= MaxKeys
        /\ redis' = client
        /\ store' = r.store
        /\ pop' = PopAfter(pop, r, key, ttl)
        /\ last' = [op |-> op, key |-> key, offset |-> offset, limit |-> limit,
                    status |-> status, fate |-> q,
                    hit |-> r.hit,
                    fetched |-> IF r.calls = 0 THEN <<>> ELSE <<fetched>>,
                    rejected |-> r.threw,
                    dbRejected |-> FALSE,
                    healthy |-> Healthy,
                    fresh |-> IF pop.key # key THEN "none"
                              ELSE IF pop.t < pop.ttl THEN "within"
                              ELSE "expired"]
        /\ lastValue' = r.value
        /\ UNCHANGED <<dbVars, env, storeUp, routeVars, raceVars, pushVars, mailVars>>

getRecentActivitiesOptimized(offset, limit, q) ==
    \E uOrd \in OrderByDesc(users), qOrd \in OrderByDesc(quotes) :
        Cached("activities", CACHE_KEYS_activities(offset, limit),
               ActivitiesFetcher(MapSeq(Selected, uOrd), MapSeq(Selected, qOrd),
                                 offset, limit, q),
               CACHE_TTL_realtime, offset, limit, Undefined, q)

getActivityStatsOptimized(q) ==
    Cached("stats", CACHE_KEYS_stats, StatsFetcher(q), CACHE_TTL_stats,
           0, 0, Undefined, q)

getQuotesOptimized(offset, limit, status, q) ==
    \E ord \in OrderByDesc(QuotesWhere(status)) :
        Cached("quotes", CACHE_KEYS_quotes(offset, limit),
               EntityFetcher(MapSeq(Selected, ord), QuotesWhere(status), offset, limit, q),
               CACHE_TTL_realtime, offset, limit, status, q)

getNewUsersOptimized(offset, limit, q) ==
    \E ord \in OrderByDesc(CustomersWhere) :
        Cached("users", CACHE_KEYS_users(offset, limit),
               EntityFetcher(MapSeq(Selected, ord), CustomersWhere, offset, limit, q),
               CACHE_TTL_realtime, offset, limit, Undefined, q)

getNewsletterSubscribersOptimized(offset, limit, q) ==
    \E ord \in OrderByDesc(newsletter) :
        Cached("newsletter", CACHE_KEYS_newsletter(offset, limit),
               EntityFetcher(MapSeq(Selected, ord), newsletter, offset, limit, q),
               CACHE_TTL_realtime, offset, limit, Undefined, q)

getFormSubmissionsOptimized(offset, limit, q) ==
    \E ord \in OrderByDesc(forms) :
        Cached("forms", CACHE_KEYS_forms(offset, limit),
               EntityFetcher(MapSeq(Selected, ord), forms, offset, limit, q),
               CACHE_TTL_realtime, offset, limit, Undefined, q)

FetchOps == {"activities", "stats", "quotes", "users", "newsletter", "forms"}

UpdateFates == {"ok", "error", "timeoutApplied"}

FormStatuses == {"new", "read"}

\* updateFormSubmissionStatus(id, status).  fate: the update resolves (ok), rejects
\* without changing the row (error), or withTimeout's timer wins while the update
\* still takes effect in the database (timeoutApplied).  Updating a row that does
\* not exist rejects.  After a resolved update: invalidateDashboardCache('dashboard:forms').
updateFormSubmissionStatus(id, status, fate) ==
    LET found == \E r \in forms : r.id = id
        written == {IF r.id = id THEN [r EXCEPT !.status = status] ELSE r : r \in forms}
        updated == found /\ fate = "ok"
        client == getRedis(redis, env)
        inv == invalidateDashboardCache(client, storeUp, store, S_dashboard \o S_forms)
    IN  /\ forms' = IF found /\ fate # "error" THEN written ELSE forms
        /\ IF updated
           THEN redis' = client /\ store' = inv.store /\ pop' = NoPop
           ELSE UNCHANGED <<redis, store, pop>>
        /\ last' = [NoLast EXCEPT !.op = "updateForm",
                                  !.key = S_dashboard \o S_forms,
                                  !.rejected = ~updated \/ inv.threw,
                                  !.dbRejected = ~updated,
                                  !.healthy = Healthy]
        /\ lastValue' = IF updated /\ ~inv.threw
                        THEN <<Selected(CHOOSE r \in written : r.id = id)>>
                        ELSE <<>>
        /\ UNCHANGED <<users, quotes, newsletter, checkouts, env, storeUp, routeVars, raceVars, pushVars, mailVars>>

\* invalidateAllDashboardCache(): invalidateDashboardCache('dashboard:')
invalidateAllDashboardCache ==
    LET client == getRedis(redis, env)
        inv == invalidateDashboardCache(client, storeUp, store, S_dashboard)
    IN  /\ redis' = client
        /\ store' = inv.store
        /\ pop' = NoPop
        /\ last' = [NoLast EXCEPT !.op = "invalidateAll", !.key = S_dashboard,
                                  !.rejected = inv.threw, !.healthy = Healthy]
        /\ lastValue' = <<>>
        /\ UNCHANGED <<dbVars, env, storeUp, routeVars, raceVars, pushVars, mailVars>>

\* TickStep seconds pass
Tick ==
    /\ store' = Elapse(store, TickStep)
    /\ pop' = AgeBy(pop, TickStep)
    /\ last' = [NoLast EXCEPT !.op = "tick"]
    /\ lastValue' = <<>>
    /\ UNCHANGED <<dbVars, env, redis, storeUp, routeVars, raceVars, pushVars, mailVars>>

\* the Upstash endpoint becomes unreachable, or reachable again
Outage ==
    /\ storeUp' = ~storeUp
    /\ last' = [NoLast EXCEPT !.op = "outage"]
    /\ lastValue' = <<>>
    /\ UNCHANGED <<dbVars, env, redis, store, pop, routeVars, raceVars, pushVars, mailVars>>

(***************************************************************************)
(* GET /api/admin/dashboard-data                                           *)
(***************************************************************************)
MaxLimit == 100

S_default_page == <<"0">>
S_default_limit == <<"2", "0">>
S_Bearer == <<"B", "e", "a", "r", "e", "r", " ">>
S_localhost == <<"l", "o", "c", "a", "l", "h", "o", "s", "t">>
S_loopback == <<"1", "2", "7", ".", "0", ".", "0", ".", "1">>

\* s.includes(sub)
Includes(s, sub) ==
    \E i \in 0..(Len(s) - Len(sub)) : SubSeq(s, i + 1, i + Len(sub)) = sub

RECURSIVE TrimStart(_)
\* the string without its leading white space
TrimStart(s) == IF s # <<>> /\ Head(s) = " " THEN TrimStart(Tail(s)) ELSE s

RECURSIVE ParseDigits(_, _)
\* the value of the longest run of decimal digits s starts with, after acc
ParseDigits(s, acc) ==
    IF s = <<>> \/ ~IsDigit(Head(s)) THEN acc
    ELSE ParseDigits(Tail(s), acc * 10 + DigitVal(Head(s)))

\* parseInt(s) on a string that has no 0x prefix: leading white space and a sign
\* are skipped, the digits that follow are read, NaN when there is none
ParseInt(s) ==
    LET t == TrimStart(s)
        signed == t # <<>> /\ Head(t) \in {"-", "+"}
        body == IF signed THEN Tail(t) ELSE t
    IN  IF body = <<>> \/ ~IsDigit(Head(body)) THEN NaN
        ELSE IF signed /\ Head(t) = "-" THEN 0 - ParseDigits(body, 0)
        ELSE ParseDigits(body, 0)

\* url.searchParams.get(name) || dflt : a missing and an empty parameter are <<>>
OrDefault(param, dflt) == IF param = <<>> THEN dflt ELSE param

\* !authHeader || !authHeader.startsWith('Bearer '), on a host that is not local
Unauthorized(authHeader, hostname) ==
    /\ authHeader = <<>> \/ ~StartsWith(authHeader, S_Bearer)
    /\ ~Includes(hostname, S_localhost)
    /\ ~Includes(hostname, S_loopback)

\* { data: [], total: 0, offset, limit, hasMore: false }
Fallback(offset, limit) == PaginatedResult(<<>>, 0, offset, limit, FALSE)

\* the value of one settled fetcher, or the fallback when it rejected
Settled(r, fallback) == IF r.threw THEN fallback ELSE r.value[1]

Pagination(r) ==
    [total |-> r.total, offset |-> r.offset, limit |-> r.limit, hasMore |-> r.hasMore]

\* responseData
ResponseData(stats, sec, at, took) ==
    [stats |-> stats,
     activities |-> sec.activities.data,
     activitiesPagination |-> Pagination(sec.activities),
     quotes |-> sec.quotes.data,
     quotesPagination |-> Pagination(sec.quotes),
     newUsers |-> sec.users.data,
     newUsersPagination |-> Pagination(sec.users),
     newsletterSubscribers |-> sec.newsletter.data,
     newsletterPagination |-> Pagination(sec.newsletter),
     formSubmissions |-> sec.forms.data,
     formsPagination |-> Pagination(sec.forms),
     timestamp |-> JsonTime(Date(at)),
     responseTime |-> NumStr(took) \o <<"m", "s">>]

JsonPagination(p) ==
    [p EXCEPT !.offset = JsonNum(p.offset), !.limit = JsonNum(p.limit)]

\* JSON.stringify(responseData), as the document it denotes
JsonResponse(d) ==
    [d EXCEPT !.activities = MapSeq(JsonRow, @),
              !.activitiesPagination = JsonPagination(@),
              !.quotes = MapSeq(JsonRow, @),
              !.quotesPagination = JsonPagination(@),
              !.newUsers = MapSeq(JsonRow, @),
              !.newUsersPagination = JsonPagination(@),
              !.newsletterSubscribers = MapSeq(JsonRow, @),
              !.newsletterPagination = JsonPagination(@),
              !.formSubmissions = MapSeq(JsonRow, @),
              !.formsPagination = JsonPagination(@)]

\* crypto.createHash('md5').update(json).digest('hex'): a digest that tells
\* different documents apart
md5(json) == <<"md5", json>>

\* NextResponse: status, ETag header, JSON body; `sections` are the handler's
\* activities, quotes, newUsers, newsletter and forms objects
Response(status, etag, body, sections) ==
    [status |-> status, etag |-> etag, body |-> body, sections |-> sections]

\* the followed key after the six calls
RoutePop(p, r, offset, limit) ==
    LET p1 == PopAfter(p, r.activities, CACHE_KEYS_activities(offset, limit),
                       CACHE_TTL_realtime)
        p2 == PopAfter(p1, r.stats, CACHE_KEYS_stats, CACHE_TTL_stats)
        p3 == PopAfter(p2, r.quotes, CACHE_KEYS_quotes(offset, limit), CACHE_TTL_realtime)
        p4 == PopAfter(p3, r.users, CACHE_KEYS_users(offset, limit), CACHE_TTL_realtime)
        p5 == PopAfter(p4, r.newsletter, CACHE_KEYS_newsletter(offset, limit),
                       CACHE_TTL_realtime)
    IN  PopAfter(p5, r.forms, CACHE_KEYS_forms(offset, limit), CACHE_TTL_realtime)

\* every order the six ORDER BY queries of one request may answer in
RouteOrders ==
    [u : OrderByDesc(users), q : OrderByDesc(quotes), q2 : OrderByDesc(quotes),
     c : OrderByDesc(CustomersWhere), n : OrderByDesc(newsletter),
     f : OrderByDesc(forms)]

\* how the queries a request ran went: the fetcher of a key that was cached is not
\* invoked and none of its queries runs
QueriesRun(fates, r) ==
    [o \in FetchOps |-> [fates[o] EXCEPT !.fail = IF r[o].calls = 0 THEN {} ELSE @]]

\* the record of an operation, with the request the handler was given: the raw
\* page and limit parameters, the Authorization header and the host name of the URL
WithRequest(l, pageParam, limitParam, authHeader, hostname) ==
    LET request == [page |-> pageParam, limit |-> limitParam, authorization |-> authHeader,
                    hostname |-> hostname]
    IN  [f \in DOMAIN l \cup {"request"} |-> IF f = "request" THEN request ELSE l[f]]

\* the body of the handler's catch branch
ErrorBody(at, took) ==
    [error |-> "Failed to fetch dashboard data",
     timestamp |-> JsonTime(Date(at)),
     responseTime |-> NumStr(took) \o <<"m", "s">>]

\* GET(request).  The handler reads the clock on entry and again `took` ms later,
\* for timestamp and responseTime; the clock runs while requests are handled.  The
\* six fetchers of Promise.allSettled go through getCachedQuery, each on its own key.
\* urlParses is whether new URL(request.url) returns: when it throws, the catch
\* branch of the handler answers.
GET(urlParses, pageParam, limitParam, authHeader, hostname, ifNoneMatch, took, fates) ==
    \E page \in {MathMax(0, ParseInt(OrDefault(pageParam, S_default_page)))} :
    \E limit \in {MathMin(MaxLimit,
                          MathMax(1, ParseInt(OrDefault(limitParam, S_default_limit))))} :
    \E offset \in {JsMul(page, limit)} :
    \E client \in {getRedis(redis, env)} :
    LET at == now + took
        about == WithRequest([NoLast EXCEPT !.op = "GET", !.offset = offset,
                                            !.limit = limit, !.healthy = Healthy],
                             pageParam, limitParam, authHeader, hostname)
        fb == Fallback(offset, limit)
    IN  /\ at <= MaxClock
        /\ now' = at
        /\ IF ~urlParses
           THEN /\ last' = [about EXCEPT !.offset = 0, !.limit = 0, !.rejected = TRUE]
                /\ lastValue' = <<Response(500, <<>>, <<ErrorBody(at, took)>>, <<>>)>>
                /\ UNCHANGED <<redis, store, pop, clientETag>>
           ELSE IF Unauthorized(authHeader, hostname)
           THEN /\ last' = about
                /\ lastValue' = <<Response(401, <<>>, <<"Unauthorized">>, <<>>)>>
                /\ UNCHANGED <<redis, store, pop, clientETag>>
           ELSE \E ord \in RouteOrders :
                \E a \in {getCachedQuery(CACHE_KEYS_activities(offset, limit),
                              ActivitiesFetcher(MapSeq(Selected, ord.u),
                                                MapSeq(Selected, ord.q),
                                                offset, limit, fates["activities"]),
                              CACHE_TTL_realtime, client, storeUp, store)} :
                \E s \in {getCachedQuery(CACHE_KEYS_stats, StatsFetcher(fates["stats"]),
                              CACHE_TTL_stats, client, storeUp, a.store)} :
                \E q \in {getCachedQuery(CACHE_KEYS_quotes(offset, limit),
                              EntityFetcher(MapSeq(Selected, ord.q2), QuotesWhere(Undefined),
                                            offset, limit, fates["quotes"]),
                              CACHE_TTL_realtime, client, storeUp, s.store)} :
                \E u \in {getCachedQuery(CACHE_KEYS_users(offset, limit),
                              EntityFetcher(MapSeq(Selected, ord.c), CustomersWhere,
                                            offset, limit, fates["users"]),
                              CACHE_TTL_realtime, client, storeUp, q.store)} :
                \E n \in {getCachedQuery(CACHE_KEYS_newsletter(offset, limit),
                              EntityFetcher(MapSeq(Selected, ord.n), newsletter,
                                            offset, limit, fates["newsletter"]),
                              CACHE_TTL_realtime, client, storeUp, u.store)} :
                \E f \in {getCachedQuery(CACHE_KEYS_forms(offset, limit),
                              EntityFetcher(MapSeq(Selected, ord.f), forms,
                                            offset, limit, fates["forms"]),
                              CACHE_TTL_realtime, client, storeUp, n.store)} :
                \E sec \in {[activities |-> Settled(a, fb), quotes |-> Settled(q, fb),
                              users |-> Settled(u, fb), newsletter |-> Settled(n, fb),
                              forms |-> Settled(f, fb)]} :
                \E json \in {JsonResponse(ResponseData(Settled(s, ZeroStats), sec,
                                                        at, took))} :
                    /\ redis' = client
                    /\ store' = f.store
                    /\ pop' = RoutePop(pop, [activities |-> a, stats |-> s, quotes |-> q,
                                             users |-> u, newsletter |-> n, forms |-> f],
                                       offset, limit)
                    /\ last' = [about EXCEPT
                                   !.hit = a.hit /\ s.hit /\ q.hit /\ u.hit /\ n.hit /\ f.hit,
                                   !.fate = QueriesRun(fates,
                                                [activities |-> a, stats |-> s,
                                                 quotes |-> q, users |-> u,
                                                 newsletter |-> n, forms |-> f])]
                    /\ lastValue' =
                           IF ifNoneMatch = md5(json)
                           THEN <<Response(304, md5(json), <<>>, <<sec>>)>>
                           ELSE <<Response(200, md5(json), <<json>>, <<sec>>)>>
                    /\ clientETag' = md5(json)
        /\ UNCHANGED <<dbVars, env, storeUp, raceVars, pushVars, mailVars>>

(***************************************************************************)
(* The dashboard with the cache configured: fixed tables, page 0 and       *)
(* page 1 of the route's default page size.                                *)
(***************************************************************************)
DefaultLimit == 20

SampleUsers == {[id |-> 1, at |-> 1, status |-> "verified", role |-> "customer"]}
SampleQuotes == {[id |-> <<"q", "a">>, at |-> 2, status |-> "pending"]}
SampleForms == {[id |-> <<"f", "a">>, at |-> 1, status |-> "new"]}
SampleNewsletter == {[id |-> <<"n", "a">>, at |-> 1, status |-> "active"]}

InitSample ==
    /\ users = SampleUsers
    /\ quotes = SampleQuotes
    /\ forms = SampleForms
    /\ newsletter = SampleNewsletter
    /\ checkouts = 1

\* no call in progress
IdleReader == [pc |-> "idle", offset |-> 0, page |-> <<>>, clean |-> FALSE]

IdleWriter == [pc |-> "idle", id |-> <<>>]

\* no socket.io on either side, nobody signed in, the hook as useRef(null) and
\* useState(false) leave it: mounted, no reconnect() timer pending
IdleHook == [socketRef |-> 0, isConnected |-> FALSE, isConnecting |-> FALSE,
             mounted |-> TRUE, timers |-> 0]

InitNoPush ==
    /\ SocketServer = Null
    /\ server = Null
    /\ ioInstance = Null
    /\ sockets = <<>>
    /\ connectedAdmins = {}
    /\ io = Null
    /\ session = <<>>
    /\ hook = IdleHook

InitQuiet ==
    /\ redis = Undefined
    /\ store = [k \in {} |-> 0]
    /\ pop = NoPop
    /\ last = NoLast
    /\ lastValue = NoValue
    /\ now = 0
    /\ clientETag = <<>>
    /\ reader = IdleReader
    /\ writer = IdleWriter

\* nobody has been rate limited, nothing was mailed or logged, nobody registered
InitNoRate ==
    /\ emailRateLimits = [e \in {} |-> 0]
    /\ clock = 0
    /\ calls = <<>>

InitNoSend ==
    /\ outbox = <<>>
    /\ activityLog = <<>>

InitNoRegister ==
    /\ accounts = <<>>
    /\ requests = <<>>

InitNoPromise == promise = <<>>

InitNoMail == InitNoRate /\ InitNoSend /\ InitNoRegister /\ InitNoPromise

InitCalls == InitQuiet /\ InitNoMail

InitRest == InitCalls /\ InitNoPush

Init ==
    /\ InitSample
    /\ env = "ok"
    /\ storeUp = TRUE
    /\ InitRest

Pages == {0, DefaultLimit}

Next ==
    \/ \E o \in Pages : getFormSubmissionsOptimized(o, DefaultLimit, AllFine)
    \/ getQuotesOptimized(0, DefaultLimit, Undefined, AllFine)
    \/ getNewUsersOptimized(0, DefaultLimit, AllFine)
    \/ getNewsletterSubscribersOptimized(0, DefaultLimit, AllFine)
    \/ getRecentActivitiesOptimized(0, DefaultLimit, AllFine)
    \/ getActivityStatsOptimized(AllFine)
    \/ \E r \in forms, st \in FormStatuses, f \in UpdateFates :
           updateFormSubmissionStatus(r.id, st, f)
    \/ invalidateAllDashboardCache
    \/ Tick

Spec == Init /\ [][Next]_vars

(***************************************************************************)
(* The same dashboard on any configuration of the cache backend: the       *)
(* credentials may be missing or wrong, and the endpoint may go down and   *)
(* come back.                                                              *)
(***************************************************************************)
InitDegraded ==
    /\ InitSample
    /\ env \in Envs
    /\ storeUp \in BOOLEAN
    /\ InitRest

NextDegraded ==
    \/ \E o \in Pages : getFormSubmissionsOptimized(o, DefaultLimit, AllFine)
    \/ getQuotesOptimized(0, DefaultLimit, Undefined, AllFine)
    \/ getActivityStatsOptimized(AllFine)
    \/ \E r \in forms, st \in FormStatuses, f \in UpdateFates :
           updateFormSubmissionStatus(r.id, st, f)
    \/ invalidateAllDashboardCache
    \/ Tick
    \/ Outage

SpecDegraded == InitDegraded /\ [][NextDegraded]_vars

(***************************************************************************)
(* The route on the sample tables, with and without a cache backend, over  *)
(* MaxClock milliseconds: requests with missing, numeric and non-numeric   *)
(* page and limit, with and without a bearer token, on a local and a       *)
(* public host, conditional on the ETag received last or unconditional.    *)
(***************************************************************************)
\* page and limit of a request: both missing, page 1, a limit that is no number
QueryStrings ==
    {[page |-> <<>>, limit |-> <<>>],
     [page |-> <<"1">>, limit |-> <<>>],
     [page |-> <<>>, limit |-> <<"x">>]}

S_public_host == <<"a", ".", "i", "o">>

\* Authorization header and host name of a request
Callers ==
    {[auth |-> <<>>, host |-> S_localhost],
     [auth |-> <<>>, host |-> S_public_host],
     [auth |-> S_Bearer \o <<"t">>, host |-> S_public_host]}

\* no query fails; the query engine rejects a NaN argument, or lets it through
RouteFates == {[o \in FetchOps |-> [fail |-> {}, nanReject |-> b]] : b \in BOOLEAN}

InitRoute ==
    /\ InitSample
    /\ env \in {"missing", "ok"}
    /\ storeUp = TRUE
    /\ InitRest

NextRoute ==
    \/ \E qs \in QueryStrings, c \in Callers, inm \in {<<>>, clientETag},
          took \in 0..MaxClock, fates \in RouteFates :
           GET(TRUE, qs.page, qs.limit, c.auth, c.host, inm, took, fates)
    \/ \E took \in 0..MaxClock :
           GET(FALSE, <<>>, <<>>, <<>>, S_public_host, <<>>, took,
               [o \in FetchOps |-> AllFine])
    \/ \E r \in forms, st \in FormStatuses :
           updateFormSubmissionStatus(r.id, st, "ok")

SpecRoute == InitRoute /\ [][NextRoute]_vars

(***************************************************************************)
(* Claims about the cache.                                                 *)
(***************************************************************************)
FormsPrefix == S_dashboard \o S_forms

UpdateSucceeded(l) == l.op = "updateForm" /\ ~l.rejected

\* C1: after updateFormSubmissionStatus has succeeded, no cache entry whose key
\* starts with 'dashboard:forms' remains in the cache.
C1_NoFormsEntryAfterUpdate ==
    UpdateSucceeded(last) => \A k \in DOMAIN store : ~StartsWith(k, FormsPrefix)

\* C7: with the backing store available, a getCachedQuery call on a key made less
\* than ttl seconds after the call that populated it is a hit that does not invoke
\* the fetcher and returns the stored value, and a call made once ttl seconds have
\* elapsed invokes the fetcher again.
C7_TtlWindow ==
    (last.op \in FetchOps /\ last.healthy) =>
        /\ last.fresh = "within" =>
              /\ last.hit
              /\ last.fetched = <<>>
              /\ lastValue = <<store[last.key].value>>
        /\ last.fresh = "expired" =>
              /\ ~last.hit
              /\ Len(last.fetched) = 1
              /\ lastValue = last.fetched

\* C7 witness: a call TickStep seconds after the populating one was served from the cache
C7_Witness ==
    /\ last.op \in FetchOps /\ last.healthy
    /\ last.fresh = "within" /\ last.hit
    /\ pop.key = last.key /\ pop.t = TickStep

\* a call after the ttl has elapsed ran the fetcher again
C7_WitnessExpired ==
    last.op \in FetchOps /\ last.healthy /\ last.fresh = "expired" /\ ~last.hit

\* C8: invalidating the forms namespace after a form update leaves every entry
\* outside 'dashboard:forms' in the cache with the same value, still served as a hit.
C8_OtherNamespacesKept ==
    [][UpdateSucceeded(last') =>
          \A k \in DOMAIN store :
              ~StartsWith(k, FormsPrefix) =>
                  /\ k \in DOMAIN store'
                  /\ store'[k] = store[k]
                  /\ cache_get(redis', storeUp', store', k).val = <<store[k].value>>]_vars

\* C8 witness: a form update went through while a quotes page was cached
C8_Witness ==
    /\ UpdateSucceeded(last)
    /\ last.healthy
    /\ CACHE_KEYS_quotes(0, DefaultLimit) \in DOMAIN store

\* what the four cache functions do on the keys in use, given a client and a store
CacheKeysInUse == DOMAIN store \cup {CACHE_KEYS_stats, FormsPrefix}

NoThrowNoEffect(r) == ~r.threw /\ r.store = store

C9_WitnessUnconfigured ==
    /\ last.op \in FetchOps
    /\ redis = Null
    /\ Len(last.fetched) = 1 /\ lastValue = last.fetched

(***************************************************************************)
(* The fetchers on drawn tables, without a cache backend: every call runs  *)
(* its queries.  Offsets and page sizes range over the table sizes.        *)
(***************************************************************************)
QuoteId(i) == <<"q">> \o NatStr(i)

QuoteStatus(i) == IF i % 2 = 1 THEN "pending" ELSE "accepted"

UserTables ==
    UNION {{{[id |-> i, at |-> f[i], status |-> "verified", role |-> "customer"] :
                i \in 1..n} : f \in [1..n -> 1..MaxTs]} : n \in 0..MaxRows}

QuoteTables ==
    UNION {{{[id |-> QuoteId(i), at |-> f[i], status |-> QuoteStatus(i)] :
                i \in 1..n} : f \in [1..n -> 1..MaxTs]} : n \in 0..MaxRows}

FormTables ==
    {{[id |-> <<"f">> \o NatStr(i), at |-> 1, status |-> "new"] : i \in 1..n} :
        n \in 0..MaxOther}

InitFeed ==
    /\ users \in UserTables
    /\ quotes \in QuoteTables
    /\ forms \in FormTables
    /\ newsletter = {}
    /\ checkouts = 0
    /\ env = "missing"
    /\ storeUp = TRUE
    /\ InitRest

\* no query fails, or exactly one does
OneFails == {[fail |-> f, nanReject |-> TRUE] : f \in {{}, {"rows"}, {"business"}, {"count"}}}

QuoteFilters == {Undefined, "pending", "accepted"}

NextFeed ==
    \/ \E o \in 0..MaxRows, l \in 1..MaxRows, q \in OneFails :
           getRecentActivitiesOptimized(o, l, q)
    \/ \E o \in 0..MaxRows, l \in 1..MaxRows, st \in QuoteFilters :
           getQuotesOptimized(o, l, st, AllFine)
    \/ \E o \in 0..MaxRows, l \in 1..MaxRows : getNewUsersOptimized(o, l, AllFine)
    \/ \E o \in 0..MaxRows, l \in 1..MaxRows : getFormSubmissionsOptimized(o, l, AllFine)
    \/ \E l \in 1..MaxRows : getNewsletterSubscribersOptimized(0, l, AllFine)
    \/ getActivityStatsOptimized(AllFine)

SpecFeed == InitFeed /\ [][NextFeed]_vars

(***************************************************************************)
(* Claims about the activity feed.                                         *)
(***************************************************************************)
\* the result of the last call, when it was a call of getRecentActivitiesOptimized
FeedCall == last.op = "activities" /\ lastValue # <<>>

FeedData == lastValue[1].data

\* every ActivityEvent of the two sources the feed reads
AllEvents == {UserEvent(Selected(r)) : r \in users} \cup {QuoteEvent(Selected(r)) : r \in quotes}

\* a, b in the order: timestamp descending, then id ascending
Before(a, b) ==
    \/ getTime(a.timestamp) > getTime(b.timestamp)
    \/ getTime(a.timestamp) = getTime(b.timestamp) /\ StrLess(a.id, b.id)

\* the events of a set, most recent first, equal timestamps by id
RECURSIVE RecencyOrder(_)
RecencyOrder(S) ==
    IF S = {} THEN <<>>
    ELSE LET first == CHOOSE a \in S : \A b \in S \ {a} : Before(a, b)
         IN  <<first>> \o RecencyOrder(S \ {first})

DistinctTimestamps ==
    \A a, b \in AllEvents : a # b => a.timestamp # b.timestamp

\* the pages the call may return, over the orders the database may answer in
FeedPages(offset, limit, q) ==
    {ActivitiesFetcher(MapSeq(Selected, uOrd), MapSeq(Selected, qOrd), offset, limit, q).data :
        uOrd \in OrderByDesc(users), qOrd \in OrderByDesc(quotes)}

\* C2: the data of getRecentActivitiesOptimized(offset, limit) is ordered by timestamp
\* descending with equal timestamps ordered by id, and is the same page whatever
\* order the source queries return their rows in.
C2_OrderedAndDeterministic ==
    (FeedCall /\ last.fate.fail = {}) =>
        /\ \A i \in 1..(Len(FeedData) - 1) : Before(FeedData[i], FeedData[i + 1])
        /\ FeedPages(last.offset, last.limit, last.fate) = {FeedData}

\* C3: with distinct timestamps, page (offset, limit) is the slice
\* [offset, offset + limit) of all source events sorted most recent first, so that
\* the pages (0, L), (L, L), ... partition that order.
C3_PagesPartitionRecencyOrder ==
    (FeedCall /\ last.fate.fail = {} /\ DistinctTimestamps) =>
        FeedData = SubSeq(RecencyOrder(AllEvents), last.offset + 1,
                          Min(Cardinality(AllEvents), last.offset + last.limit))

\* C4: data.length = min(limit, total - offset) when offset < total, and 0 otherwise,
\* total being the total field of the same result.
C4_LengthMatchesTotal ==
    FeedCall =>
        Len(FeedData) =
            IF last.offset < lastValue[1].total
            THEN Min(last.limit, lastValue[1].total - last.offset)
            ELSE 0

\* the source whose query is `name`, as the claim's degraded call sees it
Surviving(table, name) == IF name \in last.fate.fail THEN {} ELSE table

\* the pages of a call that treats the failed source as empty
DegradedPages ==
    {ActivitiesFetcher(MapSeq(Selected, uOrd), MapSeq(Selected, qOrd),
                       last.offset, last.limit, AllFine).data :
        uOrd \in OrderByDesc(Surviving(users, "rows")),
        qOrd \in OrderByDesc(Surviving(quotes, "business"))}

\* C5: when exactly one source query rejects, the call resolves to a result whose
\* data holds the events of the sources that succeeded, the failed one taken as empty.
C5_OneFailureKeepsTheRest ==
    (last.op = "activities" /\ Cardinality(last.fate.fail) = 1) =>
        /\ lastValue # <<>>
        /\ lastValue[1].data \in DegradedPages

\* the fetchers that return a PaginatedResult
PagedOps == FetchOps \ {"stats"}

\* hasMore == (offset + limit < total) and data.length <= limit, as JavaScript
\* evaluates them on the fields of r
PageInvariant(r) ==
    /\ r.hasMore <=> JsLt(JsAdd(ToNumber(r.offset), ToNumber(r.limit)), r.total)
    /\ JsLe(Len(r.data), ToNumber(r.limit))

\* C6: every PaginatedResult a fetcher returns, and every section object the route
\* builds from the settled fetchers or their fallbacks, has
\* hasMore = (offset + limit < total) and data.length <= limit.
C6_PaginatedResultInvariant ==
    /\ (last.op \in PagedOps /\ lastValue # <<>>) => PageInvariant(lastValue[1])
    /\ (last.op = "GET" /\ lastValue[1].sections # <<>>) =>
           \A o \in PagedOps : PageInvariant(lastValue[1].sections[1][o])

\* C10: two fetcher calls use the same cache key if and only if they agree on
\* entity, offset, limit and filter.
C10_KeysInjective ==
    [][(last.op \in FetchOps /\ last'.op \in FetchOps) =>
          ((last.key = last'.key) <=>
              /\ last.op = last'.op
              /\ last.offset = last'.offset
              /\ last.limit = last'.limit
              /\ last.status = last'.status)]_vars

(***************************************************************************)
(* The quotes page with the cache configured, on drawn quote tables, with  *)
(* and without a status filter.                                            *)
(***************************************************************************)
InitQuotes ==
    /\ users = {}
    /\ quotes \in QuoteTables
    /\ forms = {}
    /\ newsletter = {}
    /\ checkouts = 0
    /\ env = "ok"
    /\ storeUp = TRUE
    /\ InitRest

NextQuotes ==
    \/ \E o \in 0..1, l \in 1..MaxRows, st \in QuoteFilters :
           getQuotesOptimized(o, l, st, AllFine)
    \/ Tick

SpecQuotes == InitQuotes /\ [][NextQuotes]_vars

\* C11: a getQuotesOptimized call with filter s returns only quotes of status s
\* with total the number of quotes of status s, an unfiltered call has total the
\* number of all quotes, and a filtered call leaves the entry cached for the
\* unfiltered request as it was.
C11_FilterRespected ==
    [][(last'.op = "quotes" /\ lastValue' # <<>>) =>
          LET r == lastValue'[1]
              unfiltered == CACHE_KEYS_quotes(last'.offset, last'.limit)
          IN  /\ last'.status # Undefined =>
                     /\ \A i \in DOMAIN r.data : r.data[i].status = last'.status
                     /\ r.total = Cardinality(QuotesWhere(last'.status))
                     /\ unfiltered \in DOMAIN store => store'[unfiltered] = store[unfiltered]
              /\ last'.status = Undefined => r.total = Cardinality(quotes)]_vars

(***************************************************************************)
(* getFormSubmissionsOptimized and updateFormSubmissionStatus step by      *)
(* step: each await of getCachedQuery (cache.get, fetcher, cache.set) and  *)
(* of the update (prisma update, invalidateDashboardCache) is a step of    *)
(* its own, so that the two calls interleave.                              *)
(***************************************************************************)
ReadKey(offset) == CACHE_KEYS_forms(offset, DefaultLimit)

ReadDone(offset, value, hit, fetched, clean) ==
    /\ last' = [NoLast EXCEPT !.op = "formsRead", !.key = ReadKey(offset),
                              !.offset = offset, !.limit = DefaultLimit, !.hit = hit,
                              !.fetched = fetched, !.healthy = Healthy,
                              !.fresh = IF clean THEN "clean" ELSE "overlapped"]
    /\ lastValue' = <<value>>

\* const cached = await cache.get(key); if (cached) return cached
getCachedQuery_get(offset) ==
    /\ reader.pc = "idle"
    /\ \E client \in {getRedis(redis, env)} :
       \E got \in {cache_get(client, storeUp, store, ReadKey(offset))} :
          /\ redis' = client
          /\ IF Truthy(got.val)
             THEN /\ reader' = IdleReader
                  /\ ReadDone(offset, got.val[1], TRUE, <<>>, writer.pc = "idle")
             ELSE /\ reader' = [pc |-> "missed", offset |-> offset, page |-> <<>>,
                                clean |-> writer.pc = "idle"]
                  /\ UNCHANGED <<last, lastValue>>
    /\ UNCHANGED <<dbVars, env, storeUp, store, pop, routeVars, writer, pushVars, mailVars>>

\* const data = await fetcher()
getCachedQuery_fetch ==
    /\ reader.pc = "missed"
    /\ \E ord \in OrderByDesc(forms) :
          reader' = [reader EXCEPT
                        !.pc = "fetched",
                        !.page = <<EntityFetcher(MapSeq(Selected, ord), forms,
                                                 reader.offset, DefaultLimit,
                                                 AllFine)>>]
    /\ UNCHANGED <<dbVars, env, redis, storeUp, store, pop, last, lastValue,
                   routeVars, writer, pushVars, mailVars>>

\* await cache.set(key, data, ttl); return data
getCachedQuery_set ==
    /\ reader.pc = "fetched"
    /\ \E put \in {cache_set(redis, storeUp, store, ReadKey(reader.offset),
                             reader.page[1], CACHE_TTL_realtime)} :
          store' = put.store
    /\ reader' = IdleReader
    /\ ReadDone(reader.offset, reader.page[1], FALSE, reader.page, reader.clean)
    /\ UNCHANGED <<dbVars, env, redis, storeUp, pop, routeVars, writer, pushVars, mailVars>>

\* await withTimeout(prisma.formSubmission.update({ where: { id }, data: { status } }))
updateFormSubmissionStatus_update(id, status) ==
    /\ writer.pc = "idle"
    /\ \E r \in forms : r.id = id
    /\ forms' = {IF r.id = id THEN [r EXCEPT !.status = status] ELSE r : r \in forms}
    /\ writer' = [pc |-> "updated", id |-> id]
    /\ reader' = [reader EXCEPT !.clean = FALSE]
    /\ last' = [NoLast EXCEPT !.op = "updateStarted", !.healthy = Healthy]
    /\ lastValue' = <<>>
    /\ UNCHANGED <<users, quotes, newsletter, checkouts, env, redis, storeUp, store,
                   pop, routeVars, pushVars, mailVars>>

\* await invalidateDashboardCache('dashboard:forms'); return updated
updateFormSubmissionStatus_invalidate ==
    /\ writer.pc = "updated"
    /\ \E client \in {getRedis(redis, env)} :
          /\ redis' = client
          /\ store' = invalidateDashboardCache(client, storeUp, store,
                                               S_dashboard \o S_forms).store
    /\ writer' = IdleWriter
    /\ reader' = [reader EXCEPT !.clean = FALSE]
    /\ last' = [NoLast EXCEPT !.op = "updateReturned", !.key = S_dashboard \o S_forms,
                              !.healthy = Healthy]
    /\ lastValue' = <<Selected(CHOOSE r \in forms : r.id = writer.id)>>
    /\ UNCHANGED <<dbVars, env, storeUp, pop, routeVars, pushVars, mailVars>>

\* TickStep seconds pass while calls are in progress
TickRace ==
    /\ store' = Elapse(store, TickStep)
    /\ UNCHANGED <<dbVars, env, redis, storeUp, pop, last, lastValue, routeVars,
                   raceVars, pushVars, mailVars>>

NextRace ==
    \/ \E o \in Pages : getCachedQuery_get(o)
    \/ getCachedQuery_fetch
    \/ getCachedQuery_set
    \/ \E r \in forms, st \in FormStatuses : updateFormSubmissionStatus_update(r.id, st)
    \/ updateFormSubmissionStatus_invalidate
    \/ TickRace

SpecRace == Init /\ [][NextRace]_vars

\* the rows of page (offset, DefaultLimit) of the form submissions as the database
\* holds them now
CurrentFormRows(offset) ==
    LET ord == CHOOSE o \in OrderByDesc(forms) : TRUE
        page == SkipTake(MapSeq(Selected, ord), offset, DefaultLimit)
    IN  {page[i] : i \in DOMAIN page}

PageRows(page) == {[page.data[i] EXCEPT !.at = Date(@[2])] : i \in DOMAIN page.data}

\* C12: a getFormSubmissionsOptimized call that starts after the last
\* updateFormSubmissionStatus has returned, with no update running during it,
\* returns the rows as updated, and while no update is running the cache holds no
\* forms page computed from rows as they were before the update.
C12_ReadsAfterUpdateFresh ==
    /\ (last.op = "formsRead" /\ last.fresh = "clean") =>
           PageRows(lastValue[1]) = CurrentFormRows(last.offset)
    /\ (writer.pc = "idle" /\ reader.pc = "idle") =>
           \A o \in Pages :
               ReadKey(o) \in DOMAIN store =>
                   PageRows(store[ReadKey(o)].value) = CurrentFormRows(o)


(***************************************************************************)
(* The route when queries fail: any subset of the six fetchers loses its   *)
(* queries (database error or time budget exceeded), with and without a    *)
(* cache backend; the statistics may have been fetched before the request. *)
(***************************************************************************)
\* the count query of every fetcher in F rejects
FailFates ==
    {[o \in FetchOps |-> [fail |-> IF o \in F THEN {"count"} ELSE {}, nanReject |-> TRUE]] :
        F \in SUBSET FetchOps}

S_token == S_Bearer \o <<"t">>

NextRouteFail ==
    \/ \E inm \in {<<>>, clientETag}, fates \in FailFates :
           GET(TRUE, <<>>, <<>>, S_token, S_public_host, inm, 0, fates)
    \/ GET(FALSE, <<>>, <<>>, S_token, S_public_host, <<>>, 0,
           [o \in FetchOps |-> AllFine])
    \/ \E f \in {{}, {"count"}} :
           getActivityStatsOptimized([fail |-> f, nanReject |-> TRUE])

SpecRouteFail == InitRoute /\ [][NextRouteFail]_vars

\* the cache key of a section of the response for the page (offset, limit)
SectionKey(o, offset, limit) ==
    IF o = "stats" THEN CACHE_KEYS_stats ELSE PageKey(o, offset, limit)

\* what the queries of a section answer on the tables as they are
SectionData(o, offset, limit) ==
    LET table == CASE o = "quotes" -> quotes
                   [] o = "users" -> CustomersWhere
                   [] o = "newsletter" -> newsletter
                   [] o = "forms" -> forms
                   [] OTHER -> {}
        ord == CHOOSE s \in OrderByDesc(table) : TRUE
        uOrd == CHOOSE s \in OrderByDesc(users) : TRUE
        qOrd == CHOOSE s \in OrderByDesc(quotes) : TRUE
    IN  IF o = "stats" THEN StatsFetcher(AllFine)
        ELSE IF o = "activities"
        THEN ActivitiesFetcher(MapSeq(Selected, uOrd), MapSeq(Selected, qOrd),
                               offset, limit, AllFine)
        ELSE EntityFetcher(MapSeq(Selected, ord), table, offset, limit, AllFine)

\* the empty or zero default of a section
SectionDefault(o, offset, limit) ==
    IF o = "stats" THEN ZeroStats ELSE Fallback(offset, limit)

\* C13: a request that passed the authorization check is answered 200 (304 when
\* its If-None-Match matched) whatever subset of the six fetchers lost its
\* queries; each section whose fetcher ran and failed is the empty or zero
\* default, every other section is what its fetcher obtained (from the tables,
\* or from the cache when the key was cached); a 500 is answered only when the
\* handler's try block threw, and its body has the fields error, timestamp and
\* responseTime only.
C13_FailuresContained ==
    [][(last'.op = "GET" /\ lastValue'[1].status # 401) =>
          LET r == lastValue'[1]
              o1 == last'.offset
              l1 == last'.limit
              cached(o) == /\ getRedis(redis, env) = Client /\ storeUp
                           /\ SectionKey(o, o1, l1) \in DOMAIN store
              expected(o) ==
                  IF cached(o) THEN store[SectionKey(o, o1, l1)].value
                  ELSE IF last'.fate[o].fail # {} THEN SectionDefault(o, o1, l1)
                  ELSE SectionData(o, o1, l1)
          IN  IF last'.rejected
              THEN /\ r.status = 500
                   /\ DOMAIN r.body[1] = {"error", "timestamp", "responseTime"}
                   /\ store' = store
              ELSE /\ r.status \in {200, 304}
                   /\ r.status = 304 => (r.body = <<>> /\ clientETag = r.etag)
                   /\ \A o \in PagedOps : r.sections[1][o] = expected(o)
                   /\ r.status = 200 => r.body[1].stats = expected("stats")]_vars

\* a request in which exactly the quotes and the statistics fetchers failed was
\* answered 200 with the other four sections carrying rows
C13_Witness ==
    /\ last.op = "GET"
    /\ ~last.rejected
    /\ lastValue[1].status = 200
    /\ {o \in FetchOps : last.fate[o].fail # {}} = {"quotes", "stats"}
    /\ lastValue[1].sections[1]["quotes"] = Fallback(0, DefaultLimit)
    /\ lastValue[1].body[1].stats = ZeroStats
    /\ \A o \in PagedOps \ {"quotes"} : lastValue[1].sections[1][o].data # <<>>

\* the catch branch of the handler answered
C13_WitnessError ==
    /\ last.op = "GET"
    /\ last.rejected
    /\ lastValue[1].status = 500


(***************************************************************************)
(* Claims about the requests the route accepts.                            *)
(***************************************************************************)
\* C14: a request without an Authorization header carries no credential; it is
\* answered 401 or 403, no fetcher runs for it (the response holds no section and
\* the cache is neither read nor written), whatever the host name of its URL.
C14_NoDataWithoutCredential ==
    [][(last'.op = "GET" /\ ~last'.rejected /\ last'.request.authorization = <<>>) =>
          /\ lastValue'[1].status \in {401, 403}
          /\ lastValue'[1].sections = <<>>
          /\ store' = store
          /\ redis' = redis]_vars


\* C15: the fetchers of a request are called with an integer limit in 1..100 and an
\* integer offset >= 0 that is a multiple of the limit (page * limit); a missing
\* page gives offset 0 and a missing limit gives limit 20.
C15_PaginationSanitised ==
    (last.op = "GET" /\ ~last.rejected /\ lastValue[1].sections # <<>>) =>
        /\ last.limit \in 1..MaxLimit
        /\ last.offset \in Nat
        /\ last.offset % last.limit = 0
        /\ last.request.page = <<>> => last.offset = 0
        /\ last.request.limit = <<>> => last.limit = DefaultLimit


(***************************************************************************)
(* A client that revalidates: every request carries the ETag of the        *)
(* response received last in If-None-Match (none before the first          *)
(* response), while form submissions are updated and cache entries expire. *)
(***************************************************************************)
NextRevalidate ==
    \/ \E took \in 0..MaxClock :
           GET(TRUE, <<>>, <<>>, S_token, S_public_host, clientETag, took,
               [o \in FetchOps |-> AllFine])
    \/ \E r \in forms, st \in FormStatuses :
           updateFormSubmissionStatus(r.id, st, "ok")
    \/ Tick

SpecRevalidate == InitRoute /\ [][NextRevalidate]_vars

\* the dashboard data of a response document: its statistics, lists and
\* pagination metadata, without the time stamp and the response time
DashboardData(json) == [f \in DOMAIN json \ {"timestamp", "responseTime"} |-> json[f]]

\* the document an ETag was computed from
Digested(etag) == etag[2]

\* C16: a request that carries in If-None-Match the ETag of the response received
\* before is answered 304 without a body when the dashboard data of its response
\* is the data of that earlier response, and 200 with another ETag when it is not.
C16_ConditionalRequest ==
    [][(/\ last'.op = "GET"
        /\ ~last'.rejected
        /\ lastValue'[1].sections # <<>>
        /\ clientETag # <<>>) =>
          LET r == lastValue'[1]
          IN  IF DashboardData(Digested(r.etag)) = DashboardData(Digested(clientETag))
              THEN r.status = 304 /\ r.body = <<>>
              ELSE r.status = 200 /\ r.etag # clientETag]_vars


(***************************************************************************)
(* lib/websocket: the socket.io server, its authentication middleware, the *)
(* rooms and the broadcast functions.  A socket is a record: `auth` is     *)
(* handshake.auth as the client sent it; `state` is "handshake" while the  *)
(* middleware has not answered, "admitted" once it called next(),          *)
(* "refused" once it called next(error), "connected" after the connection  *)
(* handler ran and "closed" after the socket disconnected; `rooms` are the *)
(* rooms it joined; for a socket of the hook, `sent` are the events the    *)
(* hook emitted that the server has not handled yet and `client` is the    *)
(* socket as the browser sees it.  A subscription of another client is one *)
(* step, from its emit to the end of the server's handler.                 *)
(***************************************************************************)
MaxSockets == 2     \* sockets opened in one run

Tokens == {Undefined, "1"}

Roles == {Undefined, "customer", "admin"}

DataTypes == {"stats", "forms"}

S_dashboard_updates == "dashboard-updates"

\* `data:${dataType}`
DataRoom(dataType) == "data:" \o dataType

\* `data:${dataType}:update`
UpdateEvent(dataType) == "data:" \o dataType \o ":update"

\* !x of a string or undefined
Falsy(x) == x \in {Undefined, ""}

NewSocket(token, role, ofHook) ==
    [auth |-> [token |-> token, role |-> role], state |-> "handshake",
     adminRole |-> Undefined, rooms |-> {}, sent |-> {},
     client |-> "connecting", hook |-> ofHook]

SocketIds == DOMAIN sockets

\* the sockets io.to(room) reaches: the connected sockets that joined the room
InRoom(room) == {i \in SocketIds : sockets[i].state = "connected" /\ room \in sockets[i].rooms}

\* what an emit delivered: the event and the sockets that received it
Emitted(event, to) == <<[event |-> event, to |-> to]>>

PushOp(op) == [NoLast EXCEPT !.op = op]

\* initializeWebSocketServer(httpServer): null without socket.io, or a new Server
\* with the middleware and the connection handler; called once
initializeWebSocketServer ==
    /\ server = Null
    /\ server' = IF SocketServer = Null THEN Null ELSE "io"
    /\ last' = [PushOp("initializeWebSocketServer") EXCEPT !.rejected = SocketServer = Null]
    /\ lastValue' = <<>>
    /\ UNCHANGED <<dbVars, cacheVars, routeVars, raceVars, mailVars, SocketServer, ioInstance,
                   sockets, connectedAdmins, hookVars>>

\* setWebSocketServer(io), called with what initializeWebSocketServer returned
setWebSocketServer ==
    /\ ioInstance' = server
    /\ last' = PushOp("setWebSocketServer")
    /\ lastValue' = <<>>
    /\ UNCHANGED <<dbVars, cacheVars, routeVars, raceVars, mailVars, SocketServer, server,
                   sockets, connectedAdmins, hookVars>>

\* some client opens a connection to the server with handshake.auth = {token, role}
Handshake(token, role) ==
    /\ Len(sockets) < MaxSockets
    /\ sockets' = Append(sockets, NewSocket(token, role, FALSE))
    /\ last' = PushOp("handshake")
    /\ lastValue' = <<>>
    /\ UNCHANGED <<dbVars, cacheVars, routeVars, raceVars, mailVars, SocketServer, server,
                   ioInstance, connectedAdmins, hookVars>>

\* a middleware that checks the token only and admits every role
io_use_anyRole(i) ==
    /\ server # Null
    /\ i \in SocketIds
    /\ sockets[i].state = "handshake"
    /\ sockets' = IF Falsy(sockets[i].auth.token)
                  THEN [sockets EXCEPT ![i].state = "refused"]
                  ELSE [sockets EXCEPT ![i].adminRole = sockets[i].auth.role,
                                       ![i].state = "admitted"]
    /\ last' = PushOp("io.use")
    /\ lastValue' = <<>>
    /\ UNCHANGED <<dbVars, cacheVars, routeVars, raceVars, mailVars, SocketServer, server,
                   ioInstance, connectedAdmins, hookVars>>

\* the middleware given to io.use, for socket i
io_use(i) ==
    /\ server # Null
    /\ i \in SocketIds
    /\ sockets[i].state = "handshake"
    /\ LET token == sockets[i].auth.token
           role == sockets[i].auth.role
       IN  sockets' =
               IF Falsy(token)
               THEN [sockets EXCEPT ![i].state = "refused"]
               ELSE IF role # "admin"
               THEN [sockets EXCEPT ![i].adminRole = role, ![i].state = "refused"]
               ELSE [sockets EXCEPT ![i].adminRole = role, ![i].state = "admitted"]
    /\ last' = PushOp("io.use")
    /\ lastValue' = <<>>
    /\ UNCHANGED <<dbVars, cacheVars, routeVars, raceVars, mailVars, SocketServer, server,
                   ioInstance, connectedAdmins, hookVars>>

\* io.on('connection', socket => ...) for socket i
io_on_connection(i) ==
    /\ i \in SocketIds
    /\ sockets[i].state = "admitted"
    /\ connectedAdmins' = connectedAdmins \cup {i}
    /\ sockets' = [sockets EXCEPT ![i].state = "connected"]
    /\ last' = [PushOp("connection") EXCEPT !.key = <<i>>]
    /\ lastValue' = <<>>
    /\ UNCHANGED <<dbVars, cacheVars, routeVars, raceVars, mailVars, SocketServer, server,
                   ioInstance, hookVars>>

\* whether the server has received `event` from socket i
Received(i, event) == sockets[i].hook => event \in sockets[i].sent

\* socket.on('subscribe:dashboard'): join the room, tell the room who is present
on_subscribe_dashboard(i) ==
    /\ i \in SocketIds
    /\ sockets[i].state = "connected"
    /\ Received(i, "subscribe:dashboard")
    /\ sockets' = [sockets EXCEPT ![i].sent = @ \ {"subscribe:dashboard"},
                                  ![i].rooms = @ \cup {S_dashboard_updates}]
    /\ last' = [PushOp("subscribe:dashboard") EXCEPT !.key = <<i>>]
    /\ lastValue' = Emitted("admin:presence", InRoom(S_dashboard_updates) \cup {i})
    /\ UNCHANGED <<dbVars, cacheVars, routeVars, raceVars, mailVars, SocketServer, server,
                   ioInstance, connectedAdmins, hookVars>>

\* socket.on('subscribe:data', dataType): join `data:${dataType}`
on_subscribe_data(i, dataType) ==
    /\ i \in SocketIds
    /\ sockets[i].state = "connected"
    /\ Received(i, DataRoom(dataType))
    /\ sockets' = [sockets EXCEPT ![i].sent = @ \ {DataRoom(dataType)},
                                  ![i].rooms = @ \cup {DataRoom(dataType)}]
    /\ last' = [PushOp("subscribe:data") EXCEPT !.key = <<i>>]
    /\ lastValue' = <<>>
    /\ UNCHANGED <<dbVars, cacheVars, routeVars, raceVars, mailVars, SocketServer, server,
                   ioInstance, connectedAdmins, hookVars>>

\* a disconnect handler that leaves the socket in connectedAdmins
on_disconnect_kept(i) ==
    /\ i \in SocketIds
    /\ sockets[i].state = "connected"
    /\ sockets' = [sockets EXCEPT ![i].state = "closed", ![i].rooms = {},
                                  ![i].sent = {}]
    /\ last' = [PushOp("disconnect") EXCEPT !.key = <<i>>]
    /\ lastValue' = Emitted("admin:presence", InRoom(S_dashboard_updates) \ {i})
    /\ UNCHANGED <<dbVars, cacheVars, routeVars, raceVars, mailVars, SocketServer, server,
                   ioInstance, connectedAdmins, hookVars>>

\* socket.on('disconnect'): the socket has left its rooms; forget it and tell the
\* room when somebody is left
on_disconnect(i) ==
    /\ i \in SocketIds
    /\ sockets[i].state = "connected"
    /\ connectedAdmins' = connectedAdmins \ {i}
    /\ sockets' = [sockets EXCEPT ![i].state = "closed", ![i].rooms = {},
                                  ![i].sent = {}]
    /\ last' = [PushOp("disconnect") EXCEPT !.key = <<i>>]
    /\ lastValue' = IF connectedAdmins \ {i} # {}
                    THEN Emitted("admin:presence", InRoom(S_dashboard_updates) \ {i})
                    ELSE <<>>
    /\ UNCHANGED <<dbVars, cacheVars, routeVars, raceVars, mailVars, SocketServer, server,
                   ioInstance, hookVars>>

\* a broadcast without the `if (!io) return`: io.to(...) on null throws a TypeError
Broadcast_unchecked(op, dataType, event, to) ==
    /\ last' = [PushOp(op) EXCEPT !.status = dataType, !.rejected = ioInstance = Null]
    /\ lastValue' = IF ioInstance = Null THEN Emitted("TypeError", {}) ELSE Emitted(event, to)
    /\ UNCHANGED <<dbVars, cacheVars, routeVars, raceVars, pushVars, mailVars>>

\* an exported function that emits `event` to `to` through getWebSocketServer(), and
\* returns at once when there is no server
Broadcast(op, dataType, event, to) ==
    /\ last' = [PushOp(op) EXCEPT !.status = dataType, !.rejected = ioInstance = Null]
    /\ lastValue' = IF ioInstance = Null THEN <<>> ELSE Emitted(event, to)
    /\ UNCHANGED <<dbVars, cacheVars, routeVars, raceVars, pushVars, mailVars>>

\* broadcastDashboardUpdate(dataType, data)
broadcastDashboardUpdate(dataType) ==
    Broadcast("broadcastDashboardUpdate", dataType, UpdateEvent(dataType),
              InRoom(S_dashboard_updates))

\* broadcastActivityEvent(eventType, data)
broadcastActivityEvent ==
    Broadcast("broadcastActivityEvent", Undefined, "activity:event",
              InRoom(S_dashboard_updates))

\* notifyAdmin(adminSocketId, message, severity): every socket is in the room
\* named by its own id
notifyAdmin(adminSocketId) ==
    Broadcast("notifyAdmin", Undefined, "notification",
              {i \in SocketIds : sockets[i].state = "connected" /\ i = adminSocketId})

\* broadcastNotification(message, severity)
broadcastNotification ==
    Broadcast("broadcastNotification", Undefined, "notification",
              InRoom(S_dashboard_updates))

\* getConnectedAdminCount()
getConnectedAdminCount == Cardinality(connectedAdmins)


(***************************************************************************)
(* hooks/useWebSocket: one mounted hook with its default options.          *)
(***************************************************************************)
Sessions == {<<>>} \cup {<<[id |-> "1", role |-> r]>> : r \in Roles}

\* socketRef.current?.connected
RefConnected ==
    hook.socketRef # 0 /\ sockets[hook.socketRef].client = "connected"

\* connect(): nothing without socket.io-client, without a session or when the
\* socket in socketRef is connected; else a socket with the session's id as token
\* and its role, or 'customer'
hook_connect ==
    /\ IF io = Null \/ session = <<>> \/ RefConnected
       THEN UNCHANGED <<sockets, hook>>
       ELSE /\ Len(sockets) < MaxSockets
            /\ hook' = [hook EXCEPT !.isConnecting = TRUE]
            /\ sockets' = Append(sockets,
                   NewSocket(session[1].id,
                             IF Falsy(session[1].role) THEN "customer"
                             ELSE session[1].role,
                             TRUE))
    /\ last' = [PushOp("connect") EXCEPT !.rejected = io = Null]
    /\ lastValue' = <<>>
    /\ UNCHANGED <<dbVars, cacheVars, routeVars, raceVars, mailVars, SocketServer, server,
                   ioInstance, connectedAdmins, io, session>>

\* the client socket a connection belongs to: socket.io reconnects a client socket
\* over a new connection, which the server takes for a new socket
ObjectOf(i) == IF "object" \in DOMAIN sockets[i] THEN sockets[i].object ELSE i

\* a handler that subscribes on the first connection of a client socket only
hook_on_connect_once(i) ==
    /\ i \in SocketIds
    /\ sockets[i].hook
    /\ sockets[i].state = "connected"
    /\ sockets[i].client = "connecting"
    /\ hook' = [hook EXCEPT !.socketRef = i, !.isConnected = TRUE, !.isConnecting = FALSE]
    /\ sockets' = [sockets EXCEPT ![i].client = "connected",
                                  ![i].sent = IF ObjectOf(i) = i
                                              THEN @ \cup {"subscribe:dashboard"} ELSE @]
    /\ last' = PushOp("on connect")
    /\ lastValue' = <<>>
    /\ UNCHANGED <<dbVars, cacheVars, routeVars, raceVars, mailVars, SocketServer, server,
                   ioInstance, connectedAdmins, io, session>>

\* socket.on('connect') of the hook's socket i
hook_on_connect(i) ==
    /\ i \in SocketIds
    /\ sockets[i].hook
    /\ sockets[i].state = "connected"
    /\ sockets[i].client = "connecting"
    /\ hook' = [hook EXCEPT !.socketRef = i, !.isConnected = TRUE, !.isConnecting = FALSE]
    /\ sockets' = [sockets EXCEPT ![i].client = "connected",
                                  ![i].sent = @ \cup {"subscribe:dashboard"}]
    /\ last' = PushOp("on connect")
    /\ lastValue' = <<>>
    /\ UNCHANGED <<dbVars, cacheVars, routeVars, raceVars, mailVars, SocketServer, server,
                   ioInstance, connectedAdmins, io, session>>

\* disconnect()
hook_disconnect ==
    /\ IF RefConnected
       THEN /\ sockets' = [sockets EXCEPT ![hook.socketRef].client = "disconnected"]
            /\ hook' = [hook EXCEPT !.socketRef = 0, !.isConnected = FALSE]
       ELSE UNCHANGED <<sockets, hook>>
    /\ last' = PushOp("disconnect()")
    /\ lastValue' = <<>>
    /\ UNCHANGED <<dbVars, cacheVars, routeVars, raceVars, mailVars, SocketServer, server,
                   ioInstance, connectedAdmins, io, session>>

(***************************************************************************)
(* The server: socket.io installed or not, up to MaxSockets clients that   *)
(* connect with any token and role, subscribe and disconnect, while        *)
(* dashboard updates are broadcast.                                        *)
(***************************************************************************)
InitPush ==
    /\ InitSample
    /\ env = "ok"
    /\ storeUp = TRUE
    /\ InitCalls
    /\ SocketServer \in {Null, "Server"}
    /\ server = Null
    /\ ioInstance = Null
    /\ sockets = <<>>
    /\ connectedAdmins = {}
    /\ io = Null
    /\ session = <<>>
    /\ hook = IdleHook

NextPush ==
    \/ initializeWebSocketServer
    \/ setWebSocketServer
    \/ \E token \in Tokens, role \in Roles : Handshake(token, role)
    \/ \E i \in SocketIds : io_use(i)
    \/ \E i \in SocketIds : io_on_connection(i)
    \/ \E i \in SocketIds : on_subscribe_dashboard(i)
    \/ \E i \in SocketIds, d \in DataTypes : on_subscribe_data(i, d)
    \/ \E i \in SocketIds : on_disconnect(i)
    \/ \E d \in DataTypes : broadcastDashboardUpdate(d)

SpecPush == InitPush /\ [][NextPush]_vars


(***************************************************************************)
(* Claims about the push layer.                                            *)
(***************************************************************************)
\* the sockets the connection handler has been, or is about to be, called with
PastMiddleware == {i \in SocketIds : sockets[i].state \in {"admitted", "connected", "closed"}}

\* C17: a socket gets past the middleware to the connection handler only if its
\* handshake carried a token and the role 'admin', and every socket in
\* connectedAdmins has adminRole 'admin'.
C17_OnlyAdminsAdmitted ==
    /\ \A i \in PastMiddleware :
           ~Falsy(sockets[i].auth.token) /\ sockets[i].auth.role = "admin"
    /\ \A i \in connectedAdmins : sockets[i].adminRole = "admin"
    /\ connectedAdmins \subseteq PastMiddleware

\* an admin is connected while a customer that sent a token and a client that sent
\* the role 'admin' without a token have been refused
C17_Witness ==
    /\ \E i \in connectedAdmins : sockets[i].state = "connected"
    /\ \E i \in SocketIds :
           /\ sockets[i].state = "refused"
           /\ \/ sockets[i].auth = [token |-> "1", role |-> "customer"]
              \/ sockets[i].auth = [token |-> Undefined, role |-> "admin"]


\* the sockets subscribed to updates of dataType: connected, and either subscribed
\* to the dashboard or to the data type
Subscribed(dataType) ==
    {i \in SocketIds :
        /\ sockets[i].state = "connected"
        /\ \/ S_dashboard_updates \in sockets[i].rooms
           \/ DataRoom(dataType) \in sockets[i].rooms}

\* C18: with the server registered, broadcastDashboardUpdate(dataType, data) emits
\* 'data:<dataType>:update' to exactly the sockets subscribed at that moment; no
\* other step delivers an update event, so nothing is queued or replayed to a
\* socket that subscribes later.
C18_BroadcastReachesSubscribers ==
    [][/\ (last'.op = "broadcastDashboardUpdate" /\ ioInstance # Null) =>
              /\ lastValue' # <<>>
              /\ lastValue'[1].event = UpdateEvent(last'.status)
              /\ lastValue'[1].to = Subscribed(last'.status)
       /\ (last'.op \in {"subscribe:dashboard", "subscribe:data", "connection"}
              /\ lastValue' # <<>>) =>
              lastValue'[1].event = "admin:presence"]_vars


\* the sockets whose connection handler ran and whose disconnect handler did not
Online(s) == {i \in DOMAIN s : s[i].state = "connected"}

\* C20: connectedAdmins holds exactly the ids of the sockets between their
\* 'connection' and their 'disconnect', getConnectedAdminCount() is their number,
\* an id enters the map only in the connection handler of a socket that was never
\* in it, and an id that left never comes back.
C20_PresenceTracksConnections ==
    [][/\ connectedAdmins' = Online(sockets')
       /\ getConnectedAdminCount' = Cardinality(Online(sockets'))
       /\ \A i \in connectedAdmins' \ connectedAdmins :
              /\ sockets[i].state = "admitted"
              /\ last'.op = "connection"
       /\ \A i \in DOMAIN sockets :
              sockets[i].state = "closed" => i \notin connectedAdmins']_vars

\* one socket has disconnected and is gone from the map while another is connected
\* and counted
C20_Witness ==
    /\ \E i \in SocketIds : sockets[i].state = "closed" /\ i \notin connectedAdmins
    /\ \E i \in connectedAdmins : sockets[i].state = "connected"
    /\ getConnectedAdminCount = 1


(***************************************************************************)
(* The dashboard with or without the push layer: socket.io installed or    *)
(* not on the server and in the browser, a session of any role or none;    *)
(* the hook connects and disconnects, the server broadcasts, and the       *)
(* dashboard is read over HTTP all the while.                              *)
(***************************************************************************)
InitOptional ==
    /\ InitSample
    /\ env = "ok"
    /\ storeUp = TRUE
    /\ InitCalls
    /\ SocketServer \in {Null, "Server"}
    /\ server = Null
    /\ ioInstance = Null
    /\ sockets = <<>>
    /\ connectedAdmins = {}
    /\ io \in {Null, "io"}
    /\ session \in Sessions
    /\ hook = IdleHook

NextOptional ==
    \/ initializeWebSocketServer
    \/ setWebSocketServer
    \/ \E i \in SocketIds : io_use(i)
    \/ \E i \in SocketIds : io_on_connection(i)
    \/ \E i \in SocketIds : on_subscribe_dashboard(i)
    \/ broadcastDashboardUpdate("stats")
    \/ broadcastActivityEvent
    \/ notifyAdmin(1)
    \/ broadcastNotification
    \/ hook_connect
    \/ \E i \in SocketIds : hook_on_connect(i)
    \/ hook_disconnect
    \/ getActivityStatsOptimized(AllFine)
    \/ GET(TRUE, <<>>, <<>>, S_token, S_public_host, <<>>, 0, [o \in FetchOps |-> AllFine])

SpecOptional == InitOptional /\ [][NextOptional]_vars

BroadcastOps ==
    {"broadcastDashboardUpdate", "broadcastActivityEvent", "notifyAdmin",
     "broadcastNotification"}

\* what a read of section o answers from the cache and the tables alone
ReadFrom(o, offset, limit) ==
    IF SectionKey(o, offset, limit) \in DOMAIN store
    THEN store[SectionKey(o, offset, limit)].value
    ELSE SectionData(o, offset, limit)

C19_WitnessConnect ==
    /\ io = Null
    /\ session # <<>>
    /\ last.op = "connect"
    /\ sockets = <<>>

\* the route answered without any socket.io
C19_WitnessRead ==
    /\ SocketServer = Null
    /\ io = Null
    /\ last.op = "GET"

(***************************************************************************)
(* lib/email-validation: the per-address rate limiter.  emailRateLimits    *)
(* maps an address to the count and the resetTime of its current window;   *)
(* the clock is Date.now().                                                *)
(***************************************************************************)
MaxMailClock == 3

MaxCalls == 4

MaxRateLimit == 2

MaxWindow == 1

Emails == {"a@x.io", "b@x.io"}

RateLimits == 1..MaxRateLimit

Windows == 0..MaxWindow

\* emailRateLimits.set(email, record)
MapSet(m, k, v) == [x \in DOMAIN m \cup {k} |-> IF x = k THEN v ELSE m[x]]

\* `now > record.resetTime`
WindowOver(at, record) == at > record.resetTime

\* `record.count > limit`: one call too many passes
LimitReached_late(record, limit) == record.count > limit

\* `record.count >= limit`
LimitReached(record, limit) == record.count >= limit

\* checkEmailRateLimit(email, limit, windowMs) as a function of the map and the
\* clock: the answer and the map it leaves
RateLimitCheck(m, email, limit, windowMs, at) ==
    IF email \notin DOMAIN m
    THEN [ok |-> TRUE, map |-> MapSet(m, email, [count |-> 1, resetTime |-> at + windowMs])]
    ELSE IF WindowOver(at, m[email])
    THEN [ok |-> TRUE, map |-> MapSet(m, email, [count |-> 1, resetTime |-> at + windowMs])]
    ELSE IF LimitReached(m[email], limit)
    THEN [ok |-> FALSE, map |-> m]
    ELSE [ok |-> TRUE, map |-> [m EXCEPT ![email].count = @ + 1]]

MailOp(op) == [NoLast EXCEPT !.op = op]

\* one call of checkEmailRateLimit; the call is noted in `calls`
checkEmailRateLimit(email, limit, windowMs) ==
    /\ Len(calls) < MaxCalls
    /\ \E r \in {RateLimitCheck(emailRateLimits, email, limit, windowMs, clock)} :
          /\ emailRateLimits' = r.map
          /\ calls' = Append(calls, [email |-> email, at |-> clock, limit |-> limit,
                                     windowMs |-> windowMs, ok |-> r.ok])
          /\ last' = MailOp("checkEmailRateLimit")
          /\ lastValue' = <<r.ok>>
    /\ UNCHANGED <<dbVars, cacheVars, routeVars, raceVars, pushVars, clock, sendVars,
                   registerVars, promise>>

\* time passes between two calls
Later ==
    /\ clock < MaxMailClock
    /\ clock' = clock + 1
    /\ last' = MailOp("later")
    /\ lastValue' = <<>>
    /\ UNCHANGED <<dbVars, cacheVars, routeVars, raceVars, pushVars, emailRateLimits,
                   calls, sendVars, registerVars, promise>>

\* the limiter's callers use one limit and one window length throughout
SameSetting(limit, windowMs) ==
    \A i \in 1..Len(calls) : calls[i].limit = limit /\ calls[i].windowMs = windowMs

InitRateLimit ==
    /\ InitSample
    /\ env = "ok"
    /\ storeUp = TRUE
    /\ InitQuiet
    /\ InitNoPush
    /\ InitNoMail

NextRateLimit ==
    \/ \E email \in Emails, limit \in RateLimits, windowMs \in Windows :
          /\ SameSetting(limit, windowMs)
          /\ checkEmailRateLimit(email, limit, windowMs)
    \/ Later

SpecRateLimit == InitRateLimit /\ [][NextRateLimit]_vars

\* the calls made for one address, in order
CallsOf(email) == SelectSeq(calls, LAMBDA c : c.email = email)

\* the call that opened the window the i-th call of cs falls into: the first call,
\* and every call made after the resetTime of the window before it
RECURSIVE Opener(_, _)
Opener(cs, i) ==
    IF i = 1 THEN 1
    ELSE LET o == Opener(cs, i - 1)
         IN  IF cs[i].at > cs[o].at + cs[o].windowMs THEN i ELSE o

\* the calls before the i-th one that were accepted in the i-th call's window
AcceptedBefore(cs, i) ==
    {j \in 1..(i - 1) : Opener(cs, j) = Opener(cs, i) /\ cs[j].ok}

\* C21: per address, a window lasts from the call that opened it until its
\* resetTime; at most `limit` calls are accepted in one window, a call is refused
\* exactly when `limit` calls were already accepted in its window, the first call
\* after the resetTime is accepted and opens a window with count 1, and all of
\* this is decided by the address's own calls alone
C21_RateLimitPerWindow ==
    \A email \in Emails :
        \E cs \in {CallsOf(email)} :
            /\ \A i \in 1..Len(cs) :
                  /\ Cardinality({j \in 1..Len(cs) : Opener(cs, j) = Opener(cs, i) /\ cs[j].ok})
                        <= cs[i].limit
                  /\ cs[i].ok <=> (Opener(cs, i) = i
                                   \/ Cardinality(AcceptedBefore(cs, i)) < cs[i].limit)
            /\ (cs = <<>>) <=> (email \notin DOMAIN emailRateLimits)
            /\ cs # <<>> =>
                  \E o \in {Opener(cs, Len(cs))} :
                      /\ emailRateLimits[email].resetTime = cs[o].at + cs[o].windowMs
                      /\ emailRateLimits[email].count
                            = Cardinality({j \in 1..Len(cs) : Opener(cs, j) = o /\ cs[j].ok})
                      /\ (o = Len(cs)) => emailRateLimits[email].count = 1

\* an address used up its limit, was refused, and was accepted again in a new
\* window, while the other address was served in between
C21_Witness ==
    \E i, j, k \in 1..Len(calls) :
        /\ i < j /\ j < k
        /\ calls[i].email = calls[k].email
        /\ calls[j].email # calls[i].email
        /\ ~calls[i].ok
        /\ calls[j].ok
        /\ calls[k].ok
        /\ calls[k].at > calls[i].at

(***************************************************************************)
(* lib/email-validation: strings are sequences of characters.              *)
(***************************************************************************)
UpperCase ==
    <<"A", "B", "C", "D", "E", "F", "G", "H", "I", "J", "K", "L", "M",
      "N", "O", "P", "Q", "R", "S", "T", "U", "V", "W", "X", "Y", "Z">>

LowerCase ==
    <<"a", "b", "c", "d", "e", "f", "g", "h", "i", "j", "k", "l", "m",
      "n", "o", "p", "q", "r", "s", "t", "u", "v", "w", "x", "y", "z">>

IsUpper(c) == \E i \in 1..26 : UpperCase[i] = c

IsLetter(c) == IsUpper(c) \/ \E i \in 1..26 : LowerCase[i] = c

\* s.toLowerCase()
ToLowerCase(s) ==
    [i \in DOMAIN s |-> IF IsUpper(s[i])
                        THEN LowerCase[CHOOSE k \in 1..26 : UpperCase[k] = s[i]]
                        ELSE s[i]]

RECURSIVE TrimEnd(_)
TrimEnd(s) == IF s # <<>> /\ s[Len(s)] = " " THEN TrimEnd(SubSeq(s, 1, Len(s) - 1)) ELSE s

\* s.trim()
Trim(s) == TrimEnd(TrimStart(s))

\* every character of s satisfies In
AllChars(In(_), s) == \A i \in DOMAIN s : In(s[i])

RECURSIVE Split(_, _)
\* s.split(c) for a one-character separator
Split(s, c) ==
    IF \A i \in DOMAIN s : s[i] # c THEN <<s>>
    ELSE LET k == CHOOSE i \in DOMAIN s : s[i] = c /\ \A j \in 1..(i - 1) : s[j] # c
         IN  <<SubSeq(s, 1, k - 1)>> \o Split(SubSeq(s, k + 1, Len(s)), c)

\* [a-zA-Z0-9._%-]
IsLocalChar(c) == IsLetter(c) \/ IsDigit(c) \/ c \in {".", "_", "%", "-"}

\* [a-zA-Z0-9.-]
IsDomainChar(c) == IsLetter(c) \/ IsDigit(c) \/ c \in {".", "-"}

\* STRICT_EMAIL_REGEX.test(s): /^[a-zA-Z0-9._%-]+@[a-zA-Z0-9.-]+\.[a-zA-Z]{2,}$/
STRICT_EMAIL_REGEX(s) ==
    \E i \in DOMAIN s :
        /\ s[i] = "@"
        /\ i > 1
        /\ AllChars(IsLocalChar, SubSeq(s, 1, i - 1))
        /\ \E j \in (i + 2)..Len(s) :
              /\ s[j] = "."
              /\ AllChars(IsDomainChar, SubSeq(s, i + 1, j - 1))
              /\ Len(s) - j >= 2
              /\ AllChars(IsLetter, SubSeq(s, j + 1, Len(s)))

\* the errors validateEmailFormat collects about the local part
LocalPartErrors(localPart) ==
    \/ Len(localPart) > 64
    \/ (localPart # <<>> /\ (Head(localPart) = "." \/ localPart[Len(localPart)] = "."))
    \/ Includes(localPart, <<".", ".">>)

\* the errors validateEmailFormat collects about the domain
DomainErrors(domain) ==
    LET domainParts == Split(domain, ".")
        tld == domainParts[Len(domainParts)]
    IN  \/ Len(domain) > 255
        \/ Len(domainParts) < 2
        \/ Len(tld) < 2
        \/ (tld # <<>> /\ AllChars(IsDigit, tld))
        \/ ~(domain # <<>> /\ AllChars(LAMBDA c : IsDomainChar(c) /\ ~IsUpper(c), domain))
        \/ Includes(domain, <<".", ".">>)

\* validateEmailFormat(email): isValid and normalized
validateEmailFormat(email) ==
    IF email = <<>>
    THEN [isValid |-> FALSE, normalized |-> <<>>]
    ELSE LET normalized == ToLowerCase(Trim(email))
             parts == Split(normalized, "@")
             errors ==
                 \/ Len(normalized) > 254
                 \/ Len(normalized) < 3
                 \/ ~STRICT_EMAIL_REGEX(normalized)
                 \/ Len(parts) # 2
                 \/ LocalPartErrors(parts[1])
                 \/ Len(parts) < 2
                 \/ (Len(parts) >= 2 /\ parts[2] = <<>>)
                 \/ (Len(parts) >= 2 /\ parts[2] # <<>> /\ DomainErrors(parts[2]))
         IN  [isValid |-> ~errors, normalized |-> normalized]

\* the control characters sanitizeContent removes; BEL stands for all of them
ControlChars == {"BEL"}

RECURSIVE StripTags(_)
\* s.replace(/<[^>]*>/g, ''): from each "<" up to the next ">"
StripTags(s) ==
    IF s = <<>> THEN <<>>
    ELSE IF Head(s) = "<" /\ \E i \in DOMAIN s : s[i] = ">"
         THEN StripTags(SubSeq(s, (CHOOSE i \in DOMAIN s :
                                      s[i] = ">" /\ \A j \in 1..(i - 1) : s[j] # ">") + 1,
                               Len(s)))
         ELSE <<Head(s)>> \o StripTags(Tail(s))

MaxContent == 50000

\* sanitizeContent(content, false)
sanitizeContent(content) ==
    IF content = <<>> THEN <<>>
    ELSE LET clean == StripTags(SelectSeq(content, LAMBDA c : c \notin ControlChars))
         IN  Trim(IF Len(clean) > MaxContent THEN SubSeq(clean, 1, MaxContent) ELSE clean)

SEND_LIMIT == 5

SEND_WINDOW == 3600000

\* getEmailRateLimitStatus(email).remaining
getEmailRateLimitStatus(m, email, at) ==
    IF email \notin DOMAIN m \/ at > m[email].resetTime
    THEN 5
    ELSE MathMax(0, 5 - m[email].count)


(***************************************************************************)
(* POST /api/user/send-email.  A request is what the handler reads: the    *)
(* session getServerSession resolves to (or its rejection), whether the    *)
(* body parses, the body, the schema library's verdict on the recipient,   *)
(* what sendTestEmail does and what logActivity does.                      *)
(***************************************************************************)
MaxMails == 1

S_a == <<"a", "@", "x", ".", "i", "o">>
S_A == <<"A", "@", "x", ".", "i", "o">>
S_plus == <<"a", "+", "b", "@", "x", ".", "i", "o">>
S_c == <<"c", "@", "x", ".", "i", "o">>
S_hey == <<"h", "e", "y">>
S_phishing == <<"p", "h", "i", "s", "h", "i", "n", "g">>
S_tagged == <<"p", "h", "i", "<", "b", ">", "s", "h", "i", "n", "g">>

\* getServerSession(): rejected, no session, or a user's email
Signins ==
    {[fate |-> "throws", email |-> <<>>], [fate |-> "none", email |-> <<>>],
     [fate |-> "user", email |-> S_A], [fate |-> "user", email |-> S_c]}

Recipients == {S_A, S_plus}

\* <<>> stands for a body without message
Messages == {<<>>, S_tagged}

\* sendTestEmail resolves to true or to false; its rejection is caught by the
\* catch that the handler's own throw on false reaches
SendFates == {"true", "false"}

LogFates == {"ok", "throws"}

Requests ==
    [signin : Signins, jsonOk : BOOLEAN, to : Recipients, emailOk : BOOLEAN,
     subject : {S_hey}, message : Messages, send : SendFates, log : LogFates]

\* validateSendEmailRequest(body).success: `to` is a non-empty string the library
\* takes for an email address, the subject has 3 to 200 characters, the message,
\* if there is one, 3 to 50000
validateSendEmailRequest(q) ==
    /\ Len(q.to) >= 1 /\ q.emailOk /\ Len(q.to) <= 254
    /\ Len(q.subject) >= 3 /\ Len(q.subject) <= 200
    /\ q.message # <<>> => (Len(q.message) >= 3 /\ Len(q.message) <= MaxContent)

MailResponse(status, code) == [status |-> status, code |-> code]

\* had the audit step no try of its own, its failure would reach the outer catch
LoggedResponse_uncaught(log) ==
    IF log = "ok" THEN MailResponse(200, "OK") ELSE MailResponse(500, "INTERNAL_ERROR")

\* the response after step 10: a failure of logActivity is caught and dropped
LoggedResponse(log) == MailResponse(200, "OK")

\* the handler from the rate-limit check on: the recipient is valid
SendChecked(q, normalizedEmail) ==
    \E r \in {RateLimitCheck(emailRateLimits, normalizedEmail, SEND_LIMIT, SEND_WINDOW, clock)} :
        /\ emailRateLimits' = r.map
        /\ \E sanitizedMessage \in {IF q.message = <<>> THEN <<>>
                                     ELSE sanitizeContent(Trim(q.message))} :
              IF ~r.ok
              THEN /\ lastValue' = <<[request |-> q,
                                      response |-> [status |-> 429, code |-> "RATE_LIMITED",
                                                    remaining |-> getEmailRateLimitStatus(
                                                        emailRateLimits, normalizedEmail, clock)]]>>
                   /\ UNCHANGED sendVars
              ELSE IF normalizedEmail = ToLowerCase(q.signin.email)
              THEN /\ lastValue' = <<[request |-> q,
                                      response |-> MailResponse(400, "SELF_SEND_ERROR")]>>
                   /\ UNCHANGED sendVars
              ELSE IF sanitizedMessage # <<>> /\ Includes(sanitizedMessage, S_phishing)
              THEN /\ lastValue' = <<[request |-> q,
                                      response |-> MailResponse(400, "CONTENT_FLAGGED")]>>
                   /\ UNCHANGED sendVars
              ELSE /\ outbox' = Append(outbox, normalizedEmail)
                   /\ IF q.send # "true"
                      THEN /\ lastValue' = <<[request |-> q,
                                              response |-> MailResponse(500, "EMAIL_SERVICE_ERROR")]>>
                           /\ UNCHANGED activityLog
                      ELSE /\ activityLog' = IF q.log = "ok"
                                             THEN Append(activityLog, normalizedEmail)
                                             ELSE activityLog
                           /\ lastValue' = <<[request |-> q,
                                              response |-> LoggedResponse(q.log)]>>

\* POST(req) of api/user/send-email
POST_send_email(q) ==
    /\ Len(outbox) < MaxMails
    /\ last' = MailOp("POST send-email")
    /\ IF q.signin.fate = "throws"
       THEN /\ lastValue' = <<[request |-> q, response |-> MailResponse(500, "INTERNAL_ERROR")]>>
            /\ UNCHANGED <<emailRateLimits, sendVars>>
       ELSE IF q.signin.fate = "none" \/ q.signin.email = <<>>
       THEN /\ lastValue' = <<[request |-> q, response |-> MailResponse(401, "UNAUTHORIZED")]>>
            /\ UNCHANGED <<emailRateLimits, sendVars>>
       ELSE IF ~q.jsonOk
       THEN /\ lastValue' = <<[request |-> q, response |-> MailResponse(400, "INVALID_JSON")]>>
            /\ UNCHANGED <<emailRateLimits, sendVars>>
       ELSE IF ~validateSendEmailRequest(q)
       THEN /\ lastValue' = <<[request |-> q, response |-> MailResponse(400, "VALIDATION_ERROR")]>>
            /\ UNCHANGED <<emailRateLimits, sendVars>>
       ELSE \E emailValidation \in {validateEmailFormat(q.to)} :
               IF ~emailValidation.isValid
               THEN /\ lastValue' = <<[request |-> q,
                                       response |-> MailResponse(400, "INVALID_EMAIL")]>>
                    /\ UNCHANGED <<emailRateLimits, sendVars>>
               ELSE SendChecked(q, emailValidation.normalized)
    /\ UNCHANGED <<dbVars, cacheVars, routeVars, raceVars, pushVars, clock, calls,
                   registerVars, promise>>

InitSend == InitRateLimit

NextSend == \E q \in Requests : POST_send_email(q)

SpecSend == InitSend /\ [][NextSend]_vars

\* the first check, in the order authentication (1), JSON parsing (2), schema (3),
\* email format (4), rate limit (5), self-send (7), content (8), send (9), that the
\* request q fails when the limiter's map is m; 0 if it fails none
FirstFailing(q, m, at) ==
    IF q.signin.fate # "user" THEN 1
    ELSE IF ~q.jsonOk THEN 2
    ELSE IF ~validateSendEmailRequest(q) THEN 3
    ELSE IF ~validateEmailFormat(q.to).isValid THEN 4
    ELSE IF ~RateLimitCheck(m, validateEmailFormat(q.to).normalized,
                            SEND_LIMIT, SEND_WINDOW, at).ok THEN 5
    ELSE IF validateEmailFormat(q.to).normalized = ToLowerCase(q.signin.email) THEN 7
    ELSE IF q.message # <<>> /\ Includes(sanitizeContent(Trim(q.message)), S_phishing) THEN 8
    ELSE IF q.send # "true" THEN 9
    ELSE 0

\* the status and error code that belong to a failure of check f
FailureResponses(f, q) ==
    CASE f = 1 -> IF q.signin.fate = "none" THEN {<<401, "UNAUTHORIZED">>}
                  ELSE {<<500, "INTERNAL_ERROR">>}
      [] f = 2 -> {<<400, "INVALID_JSON">>}
      [] f = 3 -> {<<400, "VALIDATION_ERROR">>}
      [] f = 4 -> {<<400, "INVALID_EMAIL">>}
      [] f = 5 -> {<<429, "RATE_LIMITED">>}
      [] f = 7 -> {<<400, "SELF_SEND_ERROR">>}
      [] f = 8 -> {<<400, "CONTENT_FLAGGED">>}
      [] f = 9 -> {<<500, "EMAIL_SERVICE_ERROR">>}
      [] f = 0 -> {<<200, "OK">>}

\* C22: in every request the response is that of the first failing check of the
\* fixed order; the limiter is consulted only when the four checks before it
\* passed, the email service is invoked only when every check before it passed,
\* the audit log is written only after a successful send, and a request that
\* fails no check is answered 200 whether or not the audit log could be written
C22_ChecksInOrder ==
    [][last'.op = "POST send-email" =>
        \E q \in {lastValue'[1].request}, resp \in {lastValue'[1].response} :
          \E f \in {FirstFailing(q, emailRateLimits, clock)} :
            /\ <<resp.status, resp.code>> \in FailureResponses(f, q)
            /\ (emailRateLimits' # emailRateLimits) => f \in {0, 7, 8, 9}
            /\ f \in {1, 2, 3, 4} => emailRateLimits' = emailRateLimits
            /\ (outbox' # outbox) <=> f \in {0, 9}
            /\ (activityLog' # activityLog) <=> (f = 0 /\ q.log = "ok")
            /\ f = 0 => resp.status = 200]_vars

\* a request that passed every check and was mailed, answered 200 although
\* logActivity failed, after the limiter had already counted earlier requests
C22_Witness ==
    /\ last.op = "POST send-email"
    /\ lastValue[1].response.status = 200
    /\ lastValue[1].request.log = "throws"
    /\ outbox # <<>>
    /\ activityLog = <<>>
    /\ emailRateLimits[S_a].count > 1

(***************************************************************************)
(* Without a cache backend: is a result remembered in memory?              *)
(***************************************************************************)
\* C23: while Redis is not configured or unavailable, the call that has just
\* returned left its result in an in-memory cache: the same call made again at
\* once (within the ttl) returns that result without invoking the fetcher
C23_MemoryFallback ==
    (last.op \in FetchOps /\ ~last.healthy /\ ~Healthy /\ Len(lastValue) = 1) =>
        \E again \in {getCachedQuery(last.key, lastValue[1], CACHE_TTL_realtime,
                                     getRedis(redis, env), storeUp, store)} :
            /\ again.calls = 0
            /\ again.value = lastValue

(***************************************************************************)
(* withTimeout(promise, timeoutMs): Promise.race of the wrapped promise and *)
(* a promise that a timer rejects.  Time is counted in whole milliseconds   *)
(* since the call; a timer that is due runs before the clock moves on.      *)
(***************************************************************************)
MaxTimeout == 3

MaxElapsed == 4

S_Query_timeout ==
    <<"Q", "u", "e", "r", "y", " ", "t", "i", "m", "e", "o", "u", "t", " ",
      "a", "f", "t", "e", "r", " ">>

\* new Error(`Query timeout after ${timeoutMs}ms`)
TimeoutError(timeoutMs) ==
    [kind |-> "rejected", with |-> S_Query_timeout \o NatStr(timeoutMs) \o <<"m", "s">>]

\* what the wrapped promise settles with: a value or its own error
Settlements ==
    {[kind |-> "fulfilled", with |-> <<"r", "o", "w">>],
     [kind |-> "rejected", with |-> <<"d", "b">>]}

\* a later resolve or reject would replace the outcome
Resolve_again(outcome, settlement) == <<settlement>>

\* resolve or reject of the promise Promise.race returned: only the first counts
Resolve(outcome, settlement) == IF outcome = <<>> THEN <<settlement>> ELSE outcome

\* withTimeout(promise, timeoutMs) is called; `settled` is <<>> for a pending
\* promise and <<s>> for one that has already settled with s
withTimeout(settled, timeoutMs) ==
    /\ promise = <<>>
    /\ promise' = <<[timeoutMs |-> timeoutMs, elapsed |-> 0, inner |-> settled,
                     timer |-> "armed", order |-> IF settled = <<>> THEN <<>> ELSE <<"promise">>,
                     outcome |-> IF settled = <<>> THEN <<>> ELSE Resolve(<<>>, settled[1]),
                     at |-> 0]>>
    /\ UNCHANGED <<dbVars, cacheVars, routeVars, raceVars, pushVars, rateVars, sendVars,
                   registerVars, last, lastValue>>

\* the wrapped promise settles
promise_settles(s) ==
    /\ promise # <<>>
    /\ promise[1].inner = <<>>
    /\ promise' = <<[promise[1] EXCEPT !.inner = <<s>>,
                                       !.order = Append(@, "promise"),
                                       !.outcome = Resolve(@, s),
                                       !.at = IF promise[1].outcome = <<>>
                                              THEN promise[1].elapsed ELSE @]>>
    /\ UNCHANGED <<dbVars, cacheVars, routeVars, raceVars, pushVars, rateVars, sendVars,
                   registerVars, last, lastValue>>

\* the timer is due and its callback rejects timeoutPromise
setTimeout_fires ==
    /\ promise # <<>>
    /\ promise[1].timer = "armed"
    /\ promise[1].elapsed >= promise[1].timeoutMs
    /\ promise' = <<[promise[1] EXCEPT !.timer = "fired",
                                       !.order = Append(@, "timer"),
                                       !.outcome = Resolve(@, TimeoutError(promise[1].timeoutMs)),
                                       !.at = IF promise[1].outcome = <<>>
                                              THEN promise[1].elapsed ELSE @]>>
    /\ UNCHANGED <<dbVars, cacheVars, routeVars, raceVars, pushVars, rateVars, sendVars,
                   registerVars, last, lastValue>>

\* a millisecond passes; no timer is due
Elapses ==
    /\ promise # <<>>
    /\ promise[1].elapsed < MaxElapsed
    /\ ~(promise[1].timer = "armed" /\ promise[1].elapsed >= promise[1].timeoutMs)
    /\ promise' = <<[promise[1] EXCEPT !.elapsed = @ + 1]>>
    /\ UNCHANGED <<dbVars, cacheVars, routeVars, raceVars, pushVars, rateVars, sendVars,
                   registerVars, last, lastValue>>

Timeouts == 0..MaxTimeout

InitTimeout == InitRateLimit

NextTimeout ==
    \/ \E settled \in {<<>>} \cup {<<s>> : s \in Settlements}, timeoutMs \in Timeouts :
           withTimeout(settled, timeoutMs)
    \/ \E s \in Settlements : promise_settles(s)
    \/ setTimeout_fires
    \/ Elapses

SpecTimeout == InitTimeout /\ [][NextTimeout]_vars

\* C24 (state part): the call is settled once timeoutMs have passed, never
\* later; what it settled with is the wrapped promise's own outcome if that
\* promise settled before the timer fired, and the 'Query timeout after
\* <timeoutMs>ms' error otherwise
C24_SettlesInTime ==
    promise # <<>> =>
        \E p \in {promise[1]} :
            /\ p.elapsed > p.timeoutMs => p.outcome # <<>>
            /\ (p.outcome # <<>>) <=> (p.order # <<>>)
            /\ p.outcome # <<>> =>
                  /\ p.at <= p.timeoutMs
                  /\ Head(p.order) = "promise" => p.outcome = p.inner
                  /\ Head(p.order) = "timer" =>
                        /\ p.outcome[1].kind = "rejected"
                        /\ p.outcome[1].with
                              = S_Query_timeout \o NatStr(p.timeoutMs) \o <<"m", "s">>

C24_WitnessLateTimer ==
    /\ promise # <<>>
    /\ promise[1].order = <<"promise", "timer">>
    /\ promise[1].outcome = promise[1].inner

(***************************************************************************)
(* The hook's socket over a connection that drops: socket.io-client         *)
(* reconnects the same client socket (reconnection: autoReconnect, true by  *)
(* default), and its 'connect' handler runs again.                          *)
(***************************************************************************)
\* socket.on('disconnect') of the hook's socket, whose connection i was lost;
\* with autoReconnect socketRef keeps the socket
hook_on_disconnect(i) ==
    /\ i \in SocketIds
    /\ sockets[i].hook
    /\ sockets[i].state = "closed"
    /\ sockets[i].client = "connected"
    /\ hook' = [hook EXCEPT !.isConnected = FALSE]
    /\ sockets' = [sockets EXCEPT ![i].client = "lost"]
    /\ last' = PushOp("on disconnect")
    /\ lastValue' = <<>>
    /\ UNCHANGED <<dbVars, cacheVars, routeVars, raceVars, mailVars, SocketServer, server,
                   ioInstance, connectedAdmins, io, session>>

\* socket.io-client opens a new connection for the socket that lost connection i;
\* socket.on('reconnect_attempt') sets isConnecting
socket_reconnects(i) ==
    /\ i \in SocketIds
    /\ sockets[i].hook
    /\ sockets[i].client = "lost"
    /\ Len(sockets) < MaxSockets
    /\ sockets' = Append([sockets EXCEPT ![i].client = "replaced"],
                         [auth |-> sockets[i].auth, state |-> "handshake",
                          adminRole |-> Undefined, rooms |-> {}, sent |-> {},
                          client |-> "connecting", hook |-> TRUE, object |-> ObjectOf(i)])
    /\ hook' = [hook EXCEPT !.isConnecting = TRUE]
    /\ last' = PushOp("reconnect_attempt")
    /\ lastValue' = <<>>
    /\ UNCHANGED <<dbVars, cacheVars, routeVars, raceVars, mailVars, SocketServer, server,
                   ioInstance, connectedAdmins, io, session>>

InitReconnect ==
    /\ InitSample
    /\ env = "ok"
    /\ storeUp = TRUE
    /\ InitCalls
    /\ SocketServer = "Server"
    /\ server = Null
    /\ ioInstance = Null
    /\ sockets = <<>>
    /\ connectedAdmins = {}
    /\ io = "io"
    /\ session \in Sessions
    /\ hook = IdleHook

NextReconnect ==
    \/ initializeWebSocketServer
    \/ \E token \in Tokens, role \in Roles : Handshake(token, role)
    \/ \E i \in SocketIds : io_use(i)
    \/ \E i \in SocketIds : io_on_connection(i)
    \/ \E i \in SocketIds : on_subscribe_dashboard(i)
    \/ \E i \in SocketIds : on_disconnect(i)
    \/ hook_connect
    \/ \E i \in SocketIds : hook_on_connect(i)
    \/ \E i \in SocketIds : hook_on_disconnect(i)
    \/ \E i \in SocketIds : socket_reconnects(i)
    \/ hook_disconnect

SpecReconnect == InitReconnect /\ [][NextReconnect]_vars

\* the hook's socket is connected over connection i, on both sides
ConnectedOver(i) ==
    sockets[i].hook /\ sockets[i].client = "connected" /\ sockets[i].state = "connected"

\* C25 (state part): while the hook's socket is connected over a connection, its
\* 'subscribe:dashboard' is on the way or has put the connection into the room
\* 'dashboard-updates'; a connection is in a room only while it is connected, so
\* none is inherited from a connection that was lost
C25_Subscribed ==
    \A i \in SocketIds :
        /\ ConnectedOver(i) =>
              \/ "subscribe:dashboard" \in sockets[i].sent
              \/ S_dashboard_updates \in sockets[i].rooms
        /\ sockets[i].rooms # {} => sockets[i].state = "connected"

\* C25: every 'connect' of the hook's socket, the first and each one after a
\* reconnection, emits 'subscribe:dashboard' on that socket, so that a connected
\* client is (re)subscribed; a new connection starts outside every room, and a
\* connection joins 'dashboard-updates' only through its own 'subscribe:dashboard'
C25_ResubscribesOnConnect ==
    [][/\ C25_Subscribed'
       /\ last'.op = "on connect" =>
              /\ hook'.socketRef \in SocketIds
              /\ "subscribe:dashboard" \in sockets'[hook'.socketRef].sent
                    \ sockets[hook'.socketRef].sent
       /\ \A i \in DOMAIN sockets' :
              /\ i \notin SocketIds => sockets'[i].rooms = {} /\ sockets'[i].sent = {}
              /\ (i \in SocketIds /\ sockets'[i].rooms # sockets[i].rooms
                    /\ sockets'[i].rooms # {}) =>
                     /\ last'.op = "subscribe:dashboard"
                     /\ last'.key = <<i>>
                     /\ sockets[i].hook => "subscribe:dashboard" \in sockets[i].sent]_vars

\* the hook's socket lost its connection, reconnected over a new one, and the new
\* connection is in the room while the lost one is in none
C25_Witness ==
    \E i, j \in SocketIds :
        /\ i < j
        /\ sockets[j].hook /\ ObjectOf(j) = i
        /\ sockets[i].state = "closed" /\ sockets[i].rooms = {}
        /\ ConnectedOver(j)
        /\ S_dashboard_updates \in sockets[j].rooms

(***************************************************************************)
(* POST /api/auth/register: each request runs through its awaits one at a   *)
(* time, and the steps of concurrent requests interleave.  `accounts` is    *)
(* the user table with its unique index on email.                           *)
(***************************************************************************)
MaxRequests == 2

\* a request body: the email, and whether firstName, lastName and password are there
Registrations == [email : Emails \cup {""}, named : BOOLEAN]

HasEmail(email) == \E k \in DOMAIN accounts : accounts[k].email = email

\* a request arrives: req.json(), the required fields, then findUnique is issued
POST_register(body) ==
    /\ Len(requests) < MaxRequests
    /\ requests' = Append(requests,
           IF ~body.named \/ body.email = ""
           THEN [body |-> body, email |-> body.email, pc |-> "done", status |-> 400]
           ELSE [body |-> body, email |-> body.email, pc |-> "findUnique", status |-> 0])
    /\ last' = MailOp("POST register")
    /\ lastValue' = <<>>
    /\ UNCHANGED <<dbVars, cacheVars, routeVars, raceVars, pushVars, rateVars, sendVars,
                   accounts, promise>>

\* prisma.user.findUnique({ where: { email } }) of request r resolves; 409 if a
\* user was found, else the password is hashed and create is issued
register_findUnique(r) ==
    /\ r \in DOMAIN requests
    /\ requests[r].pc = "findUnique"
    /\ requests' = [requests EXCEPT ![r] =
           IF HasEmail(requests[r].email)
           THEN [@ EXCEPT !.pc = "done", !.status = 409]
           ELSE [@ EXCEPT !.pc = "create"]]
    /\ last' = MailOp("register findUnique")
    /\ lastValue' = <<>>
    /\ UNCHANGED <<dbVars, cacheVars, routeVars, raceVars, pushVars, rateVars, sendVars,
                   accounts, promise>>

\* prisma.user.create of request r resolves with the new user (201), or rejects
\* on the unique index and the catch answers 500
register_create(r) ==
    /\ r \in DOMAIN requests
    /\ requests[r].pc = "create"
    /\ IF HasEmail(requests[r].email)
       THEN /\ requests' = [requests EXCEPT ![r].pc = "done", ![r].status = 500]
            /\ UNCHANGED accounts
       ELSE /\ requests' = [requests EXCEPT ![r].pc = "done", ![r].status = 201]
            /\ accounts' = Append(accounts, [email |-> requests[r].email, by |-> r])
    /\ last' = MailOp("register create")
    /\ lastValue' = <<>>
    /\ UNCHANGED <<dbVars, cacheVars, routeVars, raceVars, pushVars, rateVars, sendVars,
                   promise>>

InitRegister ==
    /\ InitSample
    /\ env = "ok"
    /\ storeUp = TRUE
    /\ InitQuiet
    /\ InitNoPush
    /\ InitNoRate /\ InitNoSend /\ InitNoPromise
    /\ accounts \in {<<>>, <<[email |-> "b@x.io", by |-> 0]>>}
    /\ requests = <<>>

NextRegister ==
    \/ \E body \in Registrations : POST_register(body)
    \/ \E r \in DOMAIN requests : register_findUnique(r)
    \/ \E r \in DOMAIN requests : register_create(r)

SpecRegister == InitRegister /\ [][NextRegister]_vars

\* request r created a user
Created(r) == \E k \in DOMAIN accounts : accounts[k].by = r

\* C26: under every interleaving of concurrent registration requests there is at
\* most one user per email; a request created a user exactly when it was answered
\* 201, and one request per registered email was; a request without a required
\* field is answered 400 and creates no user; and a request with all its fields
\* that created no user, because its email belongs to a user, is answered 409
C26_RegistrationAtomic ==
    /\ \A j, k \in DOMAIN accounts : accounts[j].email = accounts[k].email => j = k
    /\ \A r \in DOMAIN requests :
          /\ Created(r) <=> (requests[r].pc = "done" /\ requests[r].status = 201)
          /\ (~requests[r].body.named \/ requests[r].email = "") =>
                requests[r].pc = "done" /\ requests[r].status = 400
          /\ (requests[r].pc = "done" /\ requests[r].status # 400) =>
                /\ HasEmail(requests[r].email)
                /\ ~Created(r) => requests[r].status = 409

(***************************************************************************)
(* The fetchers on a working cache while queries may fail or time out.      *)
(***************************************************************************)
NextFallback ==
    \/ \E q \in OneFails : getActivityStatsOptimized(q)
    \/ \E q \in OneFails : getRecentActivitiesOptimized(0, DefaultLimit, q)
    \/ \E q \in OneFails : getFormSubmissionsOptimized(0, DefaultLimit, q)
    \/ \E q \in OneFails : getQuotesOptimized(0, DefaultLimit, Undefined, q)
    \/ Tick

SpecFallback == Init /\ [][NextFallback]_vars

\* the last call ran its queries and one of them failed or timed out
HitFailure ==
    /\ last.op \in FetchOps
    /\ last.fetched # <<>>
    /\ last.fate.fail # {}
    /\ ~last.rejected

\* C27: the fallback a fetcher returns because a query failed or timed out is
\* not stored under the call's key, and the next call with the same key runs the
\* queries again instead of being served the fallback from the cache
C27_FallbackNotCached ==
    [][/\ HitFailure' => last'.key \notin DOMAIN store'
       /\ (HitFailure /\ last'.op = last.op /\ last'.key = last.key) =>
              last'.fetched # <<>>]_vars

(***************************************************************************)
(* updateFormSubmissionStatus that rejects                                 *)
(***************************************************************************)
\* C28: a call of updateFormSubmissionStatus that rejects, on a database error or
\* on 'Query timeout', leaves the stored status and the cache as they were; a
\* call after which the stored status differs has resolved its update and run
\* the invalidation of the forms namespace
C28_RejectedUpdateHasNoEffect ==
    [][last'.op = "updateForm" =>
          /\ last'.rejected => (forms' = forms /\ store' = store)
          /\ forms' # forms => ~last'.dbRejected]_vars

(***************************************************************************)
(* The hook through its life: every render gives connect a new identity    *)
(* (mergedOptions is a new object), so the mount effect runs its cleanup    *)
(* and connect() again; reconnect() leaves a timer behind; the unmount runs *)
(* the cleanup a last time.                                                 *)
(***************************************************************************)
MaxTimers == 1

\* hook and sockets after disconnect()
AfterDisconnect(h, ss) ==
    IF h.socketRef # 0 /\ ss[h.socketRef].client = "connected"
    THEN [hook |-> [h EXCEPT !.socketRef = 0, !.isConnected = FALSE],
          sockets |-> [ss EXCEPT ![h.socketRef].client = "disconnected"]]
    ELSE [hook |-> h, sockets |-> ss]

\* whether connect() returns without creating a socket
ConnectReturns(h, ss) ==
    \/ io = Null
    \/ session = <<>>
    \/ (h.socketRef # 0 /\ ss[h.socketRef].client = "connected")

\* hook and sockets after connect()
AfterConnect(h, ss) ==
    IF ConnectReturns(h, ss)
    THEN [hook |-> h, sockets |-> ss]
    ELSE [hook |-> [h EXCEPT !.isConnecting = TRUE],
          sockets |-> Append(ss, NewSocket(session[1].id,
                                           IF Falsy(session[1].role) THEN "customer"
                                           ELSE session[1].role,
                                           TRUE))]

\* a render of the mounted hook: the effect's cleanup, disconnect(), then the
\* effect, connect()
hook_rerender ==
    /\ hook.mounted
    /\ \E d \in {AfterDisconnect(hook, sockets)} :
          \E c \in {AfterConnect(d.hook, d.sockets)} :
              /\ Len(c.sockets) <= MaxSockets
              /\ hook' = c.hook
              /\ sockets' = c.sockets
    /\ last' = PushOp("render")
    /\ lastValue' = <<>>
    /\ UNCHANGED <<dbVars, cacheVars, routeVars, raceVars, mailVars, SocketServer, server,
                   ioInstance, connectedAdmins, io, session>>

\* reconnect(): disconnect() and setTimeout(() => connect(), 500)
hook_reconnect ==
    /\ hook.mounted
    /\ hook.timers < MaxTimers
    /\ \E d \in {AfterDisconnect(hook, sockets)} :
          /\ hook' = [d.hook EXCEPT !.timers = @ + 1]
          /\ sockets' = d.sockets
    /\ last' = PushOp("reconnect()")
    /\ lastValue' = <<>>
    /\ UNCHANGED <<dbVars, cacheVars, routeVars, raceVars, mailVars, SocketServer, server,
                   ioInstance, connectedAdmins, io, session>>

\* the timer of reconnect() fires: connect(); nothing clears it on unmount
hook_reconnect_timer ==
    /\ hook.timers > 0
    /\ \E c \in {AfterConnect([hook EXCEPT !.timers = @ - 1], sockets)} :
          /\ Len(c.sockets) <= MaxSockets
          /\ hook' = c.hook
          /\ sockets' = c.sockets
    /\ last' = PushOp("reconnect timer")
    /\ lastValue' = <<>>
    /\ UNCHANGED <<dbVars, cacheVars, routeVars, raceVars, mailVars, SocketServer, server,
                   ioInstance, connectedAdmins, io, session>>

\* the component unmounts: the effect's cleanup, disconnect()
hook_unmount ==
    /\ hook.mounted
    /\ \E d \in {AfterDisconnect(hook, sockets)} :
          /\ hook' = [d.hook EXCEPT !.mounted = FALSE]
          /\ sockets' = d.sockets
    /\ last' = PushOp("unmount")
    /\ lastValue' = <<>>
    /\ UNCHANGED <<dbVars, cacheVars, routeVars, raceVars, mailVars, SocketServer, server,
                   ioInstance, connectedAdmins, io, session>>

InitHook ==
    /\ InitSample
    /\ env = "ok"
    /\ storeUp = TRUE
    /\ InitCalls
    /\ SocketServer = "Server"
    /\ server = Null
    /\ ioInstance = Null
    /\ sockets = <<>>
    /\ connectedAdmins = {}
    /\ io = "io"
    /\ session \in Sessions
    /\ hook = IdleHook

NextHook ==
    \/ initializeWebSocketServer
    \/ \E i \in SocketIds : io_use(i)
    \/ \E i \in SocketIds : io_on_connection(i)
    \/ \E i \in SocketIds : on_disconnect(i)
    \/ hook_rerender
    \/ hook.mounted /\ hook_connect
    \/ hook.mounted /\ hook_disconnect
    \/ hook_reconnect
    \/ hook_reconnect_timer
    \/ hook_unmount
    \/ \E i \in SocketIds : hook_on_connect(i)
    \/ \E i \in SocketIds : hook_on_disconnect(i)
    \/ \E i \in SocketIds : socket_reconnects(i)

SpecHook == InitHook /\ [][NextHook]_vars

\* the sockets the hook created that are connecting or connected
OpenSockets ==
    {i \in SocketIds : sockets[i].hook /\ sockets[i].client \in {"connecting", "connected"}
                       /\ sockets[i].state # "refused"}

\* C29: at any time at most one socket created by the hook is connecting or
\* connected, isConnected is true only while that socket is connected, and once
\* the unmount cleanup has run no socket of the hook is connecting or connected
C29_OneSocketPerHook ==
    /\ Cardinality(OpenSockets) <= 1
    /\ hook.isConnected => \E i \in OpenSockets : sockets[i].client = "connected"
    /\ ~hook.mounted => OpenSockets = {}

(***************************************************************************)
(* The server module on its own: the server is created, possibly           *)
(* registered, admins connect and subscribe, and the three broadcasts to    *)
(* the dashboard room are called.                                           *)
(***************************************************************************)
NextServer ==
    \/ initializeWebSocketServer
    \/ setWebSocketServer
    \/ \E token \in Tokens, role \in Roles : Handshake(token, role)
    \/ \E i \in SocketIds : io_use(i)
    \/ \E i \in SocketIds : io_on_connection(i)
    \/ \E i \in SocketIds : on_subscribe_dashboard(i)
    \/ \E i \in SocketIds : on_disconnect(i)
    \/ \E d \in DataTypes : broadcastDashboardUpdate(d)
    \/ broadcastActivityEvent
    \/ broadcastNotification

SpecServer == InitPush /\ [][NextServer]_vars

RoomBroadcasts ==
    {"broadcastDashboardUpdate", "broadcastActivityEvent", "broadcastNotification"}

\* C30: once initializeWebSocketServer has returned a server, getWebSocketServer()
\* returns that server, and every later broadcastDashboardUpdate,
\* broadcastActivityEvent and broadcastNotification is emitted to the room
\* 'dashboard-updates' instead of being dropped
C30_InitializedServerBroadcasts ==
    [][/\ server' # Null => ioInstance' = server'
       /\ (server # Null /\ last'.op \in RoomBroadcasts)
             => /\ ~last'.rejected
                /\ lastValue' # <<>>
                /\ lastValue'[1].to = InRoom(S_dashboard_updates)]_vars

=============================================================================
